---- MODULE Spec2Model ----
(***************************************************************************)
(* A model of the unified-diff parser of .latex-review/diff_parser.py:     *)
(* parse_diff, parse_hunk, get_changed_lines, filter_chunks_by_patterns    *)
(* and format_chunk_for_review.  Python strings are TLA+ strings, Python   *)
(* lists are sequences, and every string operation the code uses (split,   *)
(* join, strip, startswith, slicing, int(), f-string formatting, fnmatch)  *)
(* is an operator that computes what the Python operation computes.        *)
(***************************************************************************)
EXTENDS Integers, Sequences, FiniteSets, TLC

VARIABLES
    pc,               \* position of the driver: which calls have returned
    file_path,        \* parse_hunk argument
    start_line,       \* parse_hunk argument (declared new-file start)
    hunk_content,     \* parse_hunk argument (raw hunk text)
    is_new_file,      \* parse_hunk argument
    walk,             \* parse_hunk's locals when its loop has ended
    chunk,            \* what parse_hunk returned (a DiffChunk or None)
    changed,          \* what get_changed_lines(chunk) returned
    rendered,         \* what format_chunk_for_review(chunk) returned
    given,            \* the input as the caller built it, kept beside the call
    diff_output,      \* parse_diff argument (raw diff text)
    chunks,           \* the chunk list parse_diff returned / filter input
    include_patterns, \* filter_chunks_by_patterns argument
    exclude_patterns, \* filter_chunks_by_patterns argument
    filtered,         \* filter_chunks_by_patterns(chunks, inc, exc)
    refiltered,       \* filter_chunks_by_patterns(filtered, inc, exc)
    lines_read,       \* parse_hunk: how many lines its loop has consumed
    max_retries,      \* OpenAIClient.max_retries
    attempt,          \* _call_api_with_retry: the loop variable
    last_error,       \* _call_api_with_retry: the last exception caught
    api_calls,        \* the outcomes of the calls of chat.completions.create
    slept,            \* the delays handed to time.sleep
    response_text,    \* what _call_api_with_retry returned
    review_result,    \* what review_chunk returned
    min_severity,     \* config["review"]["min_severity"]
    max_comments_per_file, \* config["review"]["max_comments_per_file"]
    chunk_index,      \* review_chunks: how many chunks its loop has taken
    results,          \* review_chunks: file path -> [(comment, body)]
    summaries,        \* review_chunks: the summaries collected
    sent,             \* the calls of review_chunk: chunk index and content
    pr_review_comments, \* the review comments the pull request already has
    existing_comments,  \* GitHubClient._existing_comments (the cache)
    post_comments,    \* post_review argument comments, as passed
    post_summary,     \* post_review argument summary
    skip_duplicates,  \* post_review argument
    kept_comments,    \* post_review: comments after the duplicate filter
    review_comments,  \* post_review: the list built for create_review
    pr_calls,         \* the calls made on self.pr, in order, with their outcome
    post_index,       \* _post_comments_individually: comments its loop has taken
    success_count,    \* _post_comments_individually
    post_result       \* what post_review returned

vars == <<pc, file_path, start_line, hunk_content, is_new_file, walk, chunk,
          changed, rendered, given, diff_output, chunks, include_patterns,
          exclude_patterns, filtered, refiltered, lines_read, max_retries,
          attempt, last_error, api_calls, slept, response_text, review_result,
          min_severity, max_comments_per_file, chunk_index, results, summaries,
          sent, pr_review_comments, existing_comments, post_comments,
          post_summary, skip_duplicates, kept_comments, review_comments,
          pr_calls, post_index, success_count, post_result>>

hunkVars == <<file_path, start_line, hunk_content, is_new_file>>
diffVars == <<given, diff_output>>
filterVars == <<include_patterns, exclude_patterns>>
walkVars == <<lines_read>>
apiVars == <<max_retries, attempt, last_error, api_calls, slept, response_text,
             review_result>>
reviewVars == <<min_severity, max_comments_per_file, chunk_index, results,
                summaries, sent>>
githubVars == <<pr_review_comments, existing_comments, post_comments,
                post_summary, skip_duplicates, kept_comments, review_comments,
                pr_calls, post_index, success_count, post_result>>
clientVars == <<apiVars, reviewVars, githubVars>>

-----------------------------------------------------------------------------
(* Bounds of the model.                                                    *)

\* longest hunk body (in physical lines) drawn from HunkLines
MaxBody == 3
\* most context lines on either side of the change in the long-context bodies
MaxCtx == 11
\* longest chunk list handed to filter_chunks_by_patterns
MaxChunks == 2
\* longest body (in physical lines) of the short diffs handed to parse_diff
MaxDiffBody == 2

(* Program constants.                                                      *)

\* context_before_lines[-10:] and context_after_lines[:10]
ContextLimit == 10
\* file_diff[:200]
NewFileWindow == 200

-----------------------------------------------------------------------------
(* Python's str and list operations.                                       *)

None == [none |-> TRUE]

\* a str where the code has Optional[str]
Str(s) == [str |-> s]

\* the OpenAI client has made no call
ApiIdle ==
    /\ max_retries = 0
    /\ attempt = 0
    /\ last_error = None
    /\ api_calls = <<>>
    /\ slept = <<>>
    /\ response_text = None
    /\ review_result = None

\* review_chunks has not been called
ReviewIdle ==
    /\ min_severity = ""
    /\ max_comments_per_file = 0
    /\ chunk_index = 0
    /\ results = <<>>
    /\ summaries = <<>>
    /\ sent = <<>>

\* post_review has not been called
GithubIdle ==
    /\ pr_review_comments = <<>>
    /\ existing_comments = None
    /\ post_comments = <<>>
    /\ post_summary = ""
    /\ skip_duplicates = FALSE
    /\ kept_comments = <<>>
    /\ review_comments = <<>>
    /\ pr_calls = <<>>
    /\ post_index = 0
    /\ success_count = 0
    /\ post_result = None

\* the clients of the two services are not in use
ClientsIdle == ApiIdle /\ ReviewIdle /\ GithubIdle

Char(s, i) == SubSeq(s, i, i)

\* s[i:] with a 0-based index i >= 0
SliceFrom(s, i) == SubSeq(s, i + 1, Len(s))

\* s[:n] with n >= 0
SliceTo(s, n) == SubSeq(s, 1, IF n < Len(s) THEN n ELSE Len(s))

\* s.startswith(p)
StartsWith(s, p) == Len(s) >= Len(p) /\ SubSeq(s, 1, Len(p)) = p

\* the characters str.strip() removes
IsSpace(c) == c \in {" ", "\t", "\n", "\r"}

RECURSIVE LStrip(_)
LStrip(s) ==
    IF Len(s) > 0 /\ IsSpace(Char(s, 1)) THEN LStrip(SliceFrom(s, 1)) ELSE s

RECURSIVE RStrip(_)
RStrip(s) ==
    IF Len(s) > 0 /\ IsSpace(Char(s, Len(s)))
    THEN RStrip(SubSeq(s, 1, Len(s) - 1))
    ELSE s

\* s.strip()
Strip(s) == RStrip(LStrip(s))

\* s.find('\n', from): the 1-based index of the first newline of s at or
\* after the 1-based index from, or 0 when there is none
FindNewline(s, from) ==
    IF \E i \in from..Len(s) : Char(s, i) = "\n"
    THEN CHOOSE i \in from..Len(s) :
             /\ Char(s, i) = "\n"
             /\ \A j \in from..(i - 1) : Char(s, j) # "\n"
    ELSE 0

\* s.split('\n'): the pieces between the newlines, at least one piece
RECURSIVE SplitFrom(_, _)
SplitFrom(s, from) ==
    LET n == FindNewline(s, from)
    IN  IF n = 0 THEN <<SubSeq(s, from, Len(s))>>
        ELSE <<SubSeq(s, from, n - 1)>> \o SplitFrom(s, n + 1)

SplitLines(s) == SplitFrom(s, 1)

\* '\n'.join(lines)
RECURSIVE JoinLines(_)
JoinLines(lines) ==
    IF Len(lines) = 0 THEN ""
    ELSE IF Len(lines) = 1 THEN lines[1]
    ELSE lines[1] \o "\n" \o JoinLines(Tail(lines))

\* lines[-n:] for n > 0
LastN(lines, n) ==
    IF Len(lines) <= n THEN lines ELSE SubSeq(lines, Len(lines) - n + 1, Len(lines))

\* lines[:n]
FirstN(lines, n) ==
    IF Len(lines) <= n THEN lines ELSE SubSeq(lines, 1, n)

\* min(xs), max(xs) of a non-empty list of integers
MinOf(xs) == CHOOSE m \in {xs[i] : i \in 1..Len(xs)} :
                 \A j \in 1..Len(xs) : m <= xs[j]
MaxOf(xs) == CHOOSE m \in {xs[i] : i \in 1..Len(xs)} :
                 \A j \in 1..Len(xs) : m >= xs[j]

DigitChars == <<"0", "1", "2", "3", "4", "5", "6", "7", "8", "9">>

RECURSIVE NatToStr(_)
NatToStr(n) ==
    IF n < 10 THEN DigitChars[n + 1]
    ELSE NatToStr(n \div 10) \o DigitChars[(n % 10) + 1]

\* f"{n}" for an int n
IntToStr(n) == IF n < 0 THEN "-" \o NatToStr(0 - n) ELSE NatToStr(n)

IsDigit(c) == \E d \in 1..10 : DigitChars[d] = c

DigitVal(c) == (CHOOSE d \in 1..10 : DigitChars[d] = c) - 1

\* int(s) for a non-empty string of decimal digits
RECURSIVE StrToNat(_)
StrToNat(s) ==
    IF Len(s) = 0 THEN 0
    ELSE StrToNat(SubSeq(s, 1, Len(s) - 1)) * 10 + DigitVal(Char(s, Len(s)))

-----------------------------------------------------------------------------
(* parse_hunk                                                              *)

\* the locals of parse_hunk before its loop
WalkInit(start) ==
    [current_line |-> start,
     in_change |-> FALSE,
     change_ended |-> FALSE,
     context_before_lines |-> <<>>,
     changed_lines |-> <<>>,
     context_after_lines |-> <<>>,
     added_lines |-> <<>>]

\* the two `continue` tests at the top of the loop body
IsSkippedLine(line) == line = "" \/ StartsWith(line, "\\")

\* the marker tests of the loop body
IsPlusLine(line) == StartsWith(line, "+")
IsMinusLine(line) == StartsWith(line, "-")
IsPlusHeader(line) == StartsWith(line, "+++")
IsMinusHeader(line) == StartsWith(line, "---")

\* the branch of the loop body a physical line takes
LineClass(line) ==
    IF IsSkippedLine(line) THEN "skip"
    ELSE IF IsPlusLine(line)
         THEN (IF IsPlusHeader(line) THEN "header" ELSE "add")
    ELSE IF IsMinusLine(line)
         THEN (IF IsMinusHeader(line) THEN "header" ELSE "remove")
    ELSE "context"

\* the text a context line contributes
ContextText(line) == IF StartsWith(line, " ") THEN SliceFrom(line, 1) ELSE line

\* a mutant of the `+` branch: the number is recorded after the increment
StepAddRecordingAfter(st, line) ==
    [st EXCEPT !.in_change = TRUE,
               !.change_ended = FALSE,
               !.changed_lines = Append(@, SliceFrom(line, 1)),
               !.added_lines = Append(@, st.current_line + 1),
               !.current_line = @ + 1]

\* the `+` branch
StepAdd(st, line) ==
    [st EXCEPT !.in_change = TRUE,
               !.change_ended = FALSE,
               !.changed_lines = Append(@, SliceFrom(line, 1)),
               !.added_lines = Append(@, st.current_line),
               !.current_line = @ + 1]

\* a mutant of the `-` branch: a removed line takes a new-file line number
StepRemoveAdvancing(st, line) ==
    [st EXCEPT !.in_change = TRUE,
               !.change_ended = FALSE,
               !.current_line = @ + 1]

\* the `-` branch
StepRemove(st, line) ==
    [st EXCEPT !.in_change = TRUE,
               !.change_ended = FALSE]

\* a mutant of the `else` branch: every context line goes to before-context
StepContextAlwaysBefore(st, line) ==
    [st EXCEPT !.context_before_lines = Append(@, ContextText(line)),
               !.current_line = @ + 1]

\* the `else` branch
StepContext(st, line) ==
    IF ~st.in_change
    THEN [st EXCEPT !.context_before_lines = Append(@, ContextText(line)),
                    !.current_line = @ + 1]
    ELSE [st EXCEPT !.change_ended = TRUE,
                    !.context_after_lines = Append(@, ContextText(line)),
                    !.current_line = @ + 1]

\* one iteration of `for line in lines`
HunkStep(st, line) ==
    IF IsSkippedLine(line) THEN st
    ELSE IF IsPlusLine(line)
         THEN (IF ~IsPlusHeader(line) THEN StepAdd(st, line) ELSE st)
    ELSE IF IsMinusLine(line)
         THEN (IF ~IsMinusHeader(line) THEN StepRemove(st, line) ELSE st)
    ELSE StepContext(st, line)

\* the whole loop, from local state st over lines[i..]
RECURSIVE WalkFrom(_, _, _)
WalkFrom(st, lines, i) ==
    IF i > Len(lines) THEN st
    ELSE WalkFrom(HunkStep(st, lines[i]), lines, i + 1)

\* parse_hunk's locals at the end of its loop
HunkWalk(start, content) == WalkFrom(WalkInit(start), SplitLines(content), 1)

\* a mutant of the trim of before-context: the first ten lines, not the last
TrimBeforeFirst(lines) == FirstN(lines, ContextLimit)

\* context_before_lines[-10:]
TrimBefore(lines) == LastN(lines, ContextLimit)

\* context_after_lines[:10]
TrimAfter(lines) == FirstN(lines, ContextLimit)

\* a mutant of the no-changes test: a chunk for every hunk
HunkHasChangesAlways(st) == TRUE

\* `if not changed_lines: return None`, negated
HunkHasChanges(st) == Len(st.changed_lines) > 0

\* the DiffChunk parse_hunk builds from its locals
MakeChunk(path, start, st, newfile) ==
    [file_path |-> path,
     start_line |-> IF Len(st.added_lines) > 0 THEN MinOf(st.added_lines) ELSE start,
     end_line |-> IF Len(st.added_lines) > 0 THEN MaxOf(st.added_lines) ELSE start,
     content |-> JoinLines(st.changed_lines),
     context_before |-> JoinLines(TrimBefore(st.context_before_lines)),
     context_after |-> JoinLines(TrimAfter(st.context_after_lines)),
     is_new_file |-> newfile]

parse_hunk(path, start, content, newfile) ==
    LET st == HunkWalk(start, content)
    IN  IF ~HunkHasChanges(st) THEN None
        ELSE MakeChunk(path, start, st, newfile)

-----------------------------------------------------------------------------
(* get_changed_lines                                                       *)

\* `if line.strip()`: the line has a character that is not whitespace
IsNonBlank(line) == Strip(line) # ""

ChangeType(c) == IF c.is_new_file THEN "add" ELSE "modify"

\* the loop `for i, line in enumerate(lines)`, from the 1-based index i
RECURSIVE ChangedFrom(_, _, _)
ChangedFrom(c, lines, i) ==
    IF i > Len(lines) THEN <<>>
    ELSE (IF IsNonBlank(lines[i])
          THEN <<[line_number |-> c.start_line + (i - 1),
                  content |-> lines[i],
                  change_type |-> ChangeType(c)]>>
          ELSE <<>>)
         \o ChangedFrom(c, lines, i + 1)

get_changed_lines(c) == ChangedFrom(c, SplitLines(c.content), 1)

-----------------------------------------------------------------------------
(* format_chunk_for_review                                                 *)

\* a mutant of the numbering: enumerate counted from 1
NumberedFromOne(first, lines) ==
    [i \in 1..Len(lines) |-> IntToStr(first + i) \o ": " \o lines[i]]

\* [f"{first + i}: {line}" for i, line in enumerate(lines)]
Numbered(first, lines) ==
    [i \in 1..Len(lines) |-> IntToStr(first + (i - 1)) \o ": " \o lines[i]]

\* the "Context Before" block
FormatBefore(c) ==
    IF c.context_before # ""
    THEN LET context_lines == SplitLines(c.context_before)
             context_start == c.start_line - Len(context_lines)
         IN  <<"=== Context Before ===">>
             \o Numbered(context_start, context_lines) \o <<"">>
    ELSE <<>>

\* the "Changed Lines" block
FormatChanged(c) ==
    <<"=== Changed Lines ===">>
    \o Numbered(c.start_line, SplitLines(c.content)) \o <<"">>

\* the "Context After" block
FormatAfter(c) ==
    IF c.context_after # ""
    THEN <<"=== Context After ===">>
         \o Numbered(c.end_line + 1, SplitLines(c.context_after))
    ELSE <<>>

format_chunk_for_review(c) ==
    JoinLines(<<"File: " \o c.file_path,
                "Lines: " \o IntToStr(c.start_line) \o "-" \o IntToStr(c.end_line),
                "">>
              \o FormatBefore(c) \o FormatChanged(c) \o FormatAfter(c))

-----------------------------------------------------------------------------
(* parse_diff                                                              *)

\* the offset (0-based) of the end of the line that starts at offset p:
\* the offset of its newline, or len(text)
LineEnd(text, p) ==
    IF FindNewline(text, p + 1) = 0 THEN Len(text)
    ELSE FindNewline(text, p + 1) - 1

\* the number of decimal digits of line from the 1-based index i on
RECURSIVE DigitsRun(_, _)
DigitsRun(line, i) ==
    IF i <= Len(line) /\ IsDigit(Char(line, i)) THEN 1 + DigitsRun(line, i + 1) ELSE 0

\* the literal p of a pattern matches line at the 1-based index i
MatchesAt(line, i, p) == StartsWith(SliceFrom(line, i - 1), p)

\* (?:,\d+)? at the 1-based index i: the index after it
SkipCount(line, i) ==
    IF MatchesAt(line, i, ",") /\ DigitsRun(line, i + 1) > 0
    THEN i + 1 + DigitsRun(line, i + 1)
    ELSE i

\* .+? in `a/(.+?) b/(.+?)$`: the least k >= 1 with " b/" after k characters
\* of rest and at least one character after it; 0 when there is none
RECURSIVE LazySplit(_, _)
LazySplit(rest, k) ==
    IF k + 3 >= Len(rest) THEN 0
    ELSE IF SubSeq(rest, k + 1, k + 3) = " b/" THEN k
    ELSE LazySplit(rest, k + 1)

FilePrefix == "diff --git a/"

\* file_pattern on one line: ^diff --git a/(.+?) b/(.+?)$
FileLineMatches(line) ==
    /\ StartsWith(line, FilePrefix)
    /\ LazySplit(SliceFrom(line, Len(FilePrefix)), 1) > 0

\* a mutant of the path: group(1) of file_pattern, the old-revision path
FileLineOldPath(line) ==
    LET rest == SliceFrom(line, Len(FilePrefix))
    IN  SliceTo(rest, LazySplit(rest, 1))

\* group(2) of file_pattern
FileLinePath(line) ==
    LET rest == SliceFrom(line, Len(FilePrefix))
    IN  SliceFrom(rest, LazySplit(rest, 1) + 3)

\* hunk_pattern on one line: ^@@ -(\d+)(?:,\d+)? \+(\d+)(?:,\d+)? @@
\* the 1-based index after the old range, or 0
HunkOldEnd(line) ==
    IF StartsWith(line, "@@ -") /\ DigitsRun(line, 5) > 0
    THEN SkipCount(line, 5 + DigitsRun(line, 5))
    ELSE 0

\* the 1-based index after the new range, or 0
HunkNewEnd(line) ==
    LET i == HunkOldEnd(line)
    IN  IF i > 0 /\ MatchesAt(line, i, " +") /\ DigitsRun(line, i + 2) > 0
        THEN SkipCount(line, i + 2 + DigitsRun(line, i + 2))
        ELSE 0

HunkLineMatches(line) ==
    LET i == HunkNewEnd(line)
    IN  i > 0 /\ MatchesAt(line, i, " @@")

\* the length of the match of hunk_pattern on a line it matches
HunkMatchLen(line) == HunkNewEnd(line) + 2

\* int(hunk_match.group(2))
HunkNewStart(line) ==
    LET i == HunkOldEnd(line) + 2
    IN  StrToNat(SubSeq(line, i, i + DigitsRun(line, i) - 1))

\* list(file_pattern.finditer(text)), scanning the lines from offset p on
RECURSIVE FileMatchesFrom(_, _)
FileMatchesFrom(text, p) ==
    LET e == LineEnd(text, p)
        line == SubSeq(text, p + 1, e)
        here == IF FileLineMatches(line)
                THEN <<[start |-> p, end |-> e, path |-> FileLinePath(line)]>>
                ELSE <<>>
    IN  IF e >= Len(text) THEN here
        ELSE here \o FileMatchesFrom(text, e + 1)

\* list(hunk_pattern.finditer(text)), scanning the lines from offset p on
RECURSIVE HunkMatchesFrom(_, _)
HunkMatchesFrom(text, p) ==
    LET e == LineEnd(text, p)
        line == SubSeq(text, p + 1, e)
        here == IF HunkLineMatches(line)
                THEN <<[start |-> p, end |-> p + HunkMatchLen(line),
                        new_line_start |-> HunkNewStart(line)]>>
                ELSE <<>>
    IN  IF e >= Len(text) THEN here
        ELSE here \o HunkMatchesFrom(text, e + 1)

\* the end of match i's region: the start of the next match, or len(text)
RegionEnd(matches, i, text) ==
    IF i + 1 <= Len(matches) THEN matches[i + 1].start ELSE Len(text)

\* needle in text
Contains(text, needle) ==
    \E i \in 1..(Len(text) - Len(needle) + 1) :
        SubSeq(text, i, i + Len(needle) - 1) = needle

\* a mutant of the new-file test: the marker is looked for past the window
IsNewFilePastWindow(file_diff) ==
    Contains(SliceFrom(file_diff, NewFileWindow), "new file mode")

\* 'new file mode' in file_diff[:200]
IsNewFile(file_diff) == Contains(SliceTo(file_diff, NewFileWindow), "new file mode")

\* file_diff[hunk_start:hunk_end].strip()
HunkText(file_diff, hunk_matches, j) ==
    Strip(SubSeq(file_diff, hunk_matches[j].end + 1,
                 RegionEnd(hunk_matches, j, file_diff)))

\* a mutant of `if chunk:`: whatever parse_hunk returned is appended
TruthyAlways(c) == TRUE

\* `if chunk:`: a DiffChunk is truthy, None is not
Truthy(c) == c # None

\* the inner loop of parse_diff from hunk j on: the chunks it appends
RECURSIVE HunkChunksFrom(_, _, _, _, _)
HunkChunksFrom(path, file_diff, newfile, hunk_matches, j) ==
    IF j > Len(hunk_matches) THEN <<>>
    ELSE LET c == parse_hunk(path, hunk_matches[j].new_line_start,
                             HunkText(file_diff, hunk_matches, j), newfile)
         IN  (IF Truthy(c) THEN <<c>> ELSE <<>>)
             \o HunkChunksFrom(path, file_diff, newfile, hunk_matches, j + 1)

\* the outer loop of parse_diff from file i on: the chunks it appends
RECURSIVE FileChunksFrom(_, _, _)
FileChunksFrom(text, file_matches, i) ==
    IF i > Len(file_matches) THEN <<>>
    ELSE LET file_diff == SubSeq(text, file_matches[i].end + 1,
                                 RegionEnd(file_matches, i, text))
         IN  HunkChunksFrom(file_matches[i].path, file_diff, IsNewFile(file_diff),
                            HunkMatchesFrom(file_diff, 0), 1)
             \o FileChunksFrom(text, file_matches, i + 1)

parse_diff(text) == FileChunksFrom(text, FileMatchesFrom(text, 0), 1)

-----------------------------------------------------------------------------
(* filter_chunks_by_patterns                                               *)

\* fnmatch.fnmatch(name, pat) on POSIX for patterns of literals, `*` and `?`:
\* `*` matches any run of characters (also `/`), `?` any one character, and
\* the pattern must match the whole name
RECURSIVE GlobFrom(_, _, _, _)
GlobFrom(name, i, pat, j) ==
    IF j > Len(pat) THEN i > Len(name)
    ELSE IF Char(pat, j) = "*"
         THEN GlobFrom(name, i, pat, j + 1)
              \/ (i <= Len(name) /\ GlobFrom(name, i + 1, pat, j))
    ELSE IF Char(pat, j) = "?"
         THEN i <= Len(name) /\ GlobFrom(name, i + 1, pat, j + 1)
    ELSE i <= Len(name) /\ Char(name, i) = Char(pat, j)
         /\ GlobFrom(name, i + 1, pat, j + 1)

fnmatch(name, pat) == GlobFrom(name, 1, pat, 1)

\* `for pattern in patterns: if fnmatch(...): flag = True; break`
RECURSIVE AnyPatternFrom(_, _, _)
AnyPatternFrom(path, patterns, i) ==
    IF i > Len(patterns) THEN FALSE
    ELSE IF fnmatch(path, patterns[i]) THEN TRUE
    ELSE AnyPatternFrom(path, patterns, i + 1)

\* a mutant of the loop body: the exclude patterns are not consulted
ChunkPassesIncludeOnly(c, inc, exc) == AnyPatternFrom(c.file_path, inc, 1)

\* the loop body: whether the chunk is appended to `filtered`
ChunkPasses(c, inc, exc) ==
    IF ~AnyPatternFrom(c.file_path, inc, 1) THEN FALSE
    ELSE ~AnyPatternFrom(c.file_path, exc, 1)

\* a mutant of the loop: the first chunk that passes is lost
RECURSIVE FilterFromDroppingFirst(_, _, _, _)
FilterFromDroppingFirst(cs, inc, exc, i) ==
    IF i > Len(cs) THEN <<>>
    ELSE IF ChunkPasses(cs[i], inc, exc)
         THEN SelectSeq(SubSeq(cs, i + 1, Len(cs)),
                        LAMBDA c : ChunkPasses(c, inc, exc))
    ELSE FilterFromDroppingFirst(cs, inc, exc, i + 1)

\* the loop `for chunk in chunks`, from the 1-based index i
RECURSIVE FilterFrom(_, _, _, _)
FilterFrom(cs, inc, exc, i) ==
    IF i > Len(cs) THEN <<>>
    ELSE (IF ChunkPasses(cs[i], inc, exc) THEN <<cs[i]>> ELSE <<>>)
         \o FilterFrom(cs, inc, exc, i + 1)

filter_chunks_by_patterns(cs, inc, exc) == FilterFrom(cs, inc, exc, 1)

-----------------------------------------------------------------------------
(* The hunk-level driver: parse_hunk on a hunk text, then get_changed_lines *)
(* and format_chunk_for_review on the chunk it returned.                    *)

\* the physical lines the short hunk bodies are made of
HunkLines ==
    {"", "\\ No newline at end of file",
     "+a", "+", "+ ", "+++ b",
     "-a", "--- a",
     " a", "b", " \\c"}

SeqsUpTo(S, n) == UNION {[1..k -> S] : k \in 0..n}

CtxWord(j) == <<"a", "b", "c">>[(j % 3) + 1]

\* n context lines, the i-th with the text CtxWord(off + i)
CtxRun(n, off) == [i \in 1..n |-> " " \o CtxWord(off + i)]

\* the change regions of the long-context bodies
LongMids == {<<"+a">>, <<"-b", "+a", "+b">>}

\* bodies with up to MaxCtx context lines on either side of the change
LongBodies ==
    {CtxRun(k, 0) \o mid \o CtxRun(m, k) :
        k \in 0..MaxCtx, m \in 0..MaxCtx, mid \in LongMids}

HunkBodies == SeqsUpTo(HunkLines, MaxBody) \cup LongBodies

\* the declared start lines
StartLines == {1, 9}

NoWalk == WalkInit(0)

InitHunk ==
    /\ pc = "start"
    /\ file_path = "doc/intro.tex"
    /\ start_line \in StartLines
    /\ \E body \in HunkBodies : hunk_content = JoinLines(body)
    /\ is_new_file \in BOOLEAN
    /\ walk = NoWalk
    /\ chunk = None
    /\ changed = <<>>
    /\ rendered = ""
    /\ given = None
    /\ diff_output = ""
    /\ chunks = <<>>
    /\ include_patterns = <<>>
    /\ exclude_patterns = <<>>
    /\ filtered = <<>>
    /\ refiltered = <<>>
    /\ lines_read = 0
    /\ ClientsIdle

\* one pass of the inner loop of parse_diff:
\*   chunk = parse_hunk(file_path, new_line_start, hunk_content, is_new_file)
\*   if chunk: chunks.append(chunk)
ParseHunk ==
    /\ pc = "start"
    /\ walk' = HunkWalk(start_line, hunk_content)
    /\ chunk' = parse_hunk(file_path, start_line, hunk_content, is_new_file)
    /\ chunks' = IF Truthy(chunk') THEN Append(chunks, chunk') ELSE chunks
    /\ pc' = "parsed"
    /\ UNCHANGED <<clientVars, walkVars, hunkVars, changed, rendered, diffVars, filterVars,
                   filtered, refiltered>>

\* changed = get_changed_lines(chunk)
GetChangedLines ==
    /\ pc = "parsed"
    /\ chunk # None
    /\ changed' = get_changed_lines(chunk)
    /\ pc' = "listed"
    /\ UNCHANGED <<clientVars, walkVars, hunkVars, walk, chunk, rendered, diffVars, chunks,
                   filterVars, filtered, refiltered>>

\* rendered = format_chunk_for_review(chunk)
FormatChunk ==
    /\ pc = "listed"
    /\ rendered' = format_chunk_for_review(chunk)
    /\ pc' = "rendered"
    /\ UNCHANGED <<clientVars, walkVars, hunkVars, walk, chunk, changed, diffVars, chunks,
                   filterVars, filtered, refiltered>>

Next == ParseHunk \/ GetChangedLines \/ FormatChunk

Spec == InitHunk /\ [][Next]_vars

-----------------------------------------------------------------------------
(* Properties of parse_hunk, get_changed_lines and format_chunk_for_review, *)
(* checked under Spec.                                                      *)

\* the physical lines of the hunk text handed to parse_hunk
BodyLines == SplitLines(hunk_content)

\* the indices of the physical lines of a given kind
IndicesOf(lines, class) == {i \in 1..Len(lines) : LineClass(lines[i]) = class}

\* the index of the k-th added line
NthAdded(lines, k) ==
    CHOOSE i \in IndicesOf(lines, "add") :
        Cardinality({j \in IndicesOf(lines, "add") : j < i}) = k - 1

\* the number of added and context lines before index i
CountedBefore(lines, i) ==
    Cardinality({j \in 1..(i - 1) : LineClass(lines[j]) \in {"add", "context"}})

\* C1: the numbers recorded for the added lines (the lines that begin with
\* the add marker and not with its file-header variant) are strictly
\* increasing; the number of an added line is the declared start plus the
\* number of added and context lines before it; a removed line is never
\* recorded and never advances the counter, so two added lines with only
\* removed lines between them get consecutive numbers.
C1_AddedNumbersFollowCounter ==
    pc # "start" =>
        LET lines == BodyLines
            added == walk.added_lines
        IN  /\ Len(added) = Cardinality(IndicesOf(lines, "add"))
            /\ \A k \in 1..Len(added) :
                  added[k] = start_line + CountedBefore(lines, NthAdded(lines, k))
            /\ \A k \in 1..(Len(added) - 1) :
                  /\ added[k] < added[k + 1]
                  /\ (\A j \in (NthAdded(lines, k) + 1)..(NthAdded(lines, k + 1) - 1) :
                         LineClass(lines[j]) = "remove")
                     => added[k + 1] = added[k] + 1

\* a removed line between two added lines has been walked
C1_Witness ==
    /\ pc = "parsed"
    /\ Len(walk.added_lines) >= 2
    /\ \E i \in 1..(Len(BodyLines) - 2) :
          /\ LineClass(BodyLines[i]) = "add"
          /\ LineClass(BodyLines[i + 1]) = "remove"
          /\ LineClass(BodyLines[i + 2]) = "add"

\* C3: parse_hunk returns a chunk exactly when the hunk text has an added
\* line; a hunk of removed lines, of removed and context lines or of context
\* lines only returns None, and the caller's list gets nothing for it.
C3_ChunkIffAddedLine ==
    pc # "start" =>
        /\ (chunk # None) <=> (IndicesOf(BodyLines, "add") # {})
        /\ chunks = IF IndicesOf(BodyLines, "add") # {} THEN <<chunk>> ELSE <<>>

\* a hunk of removed and context lines, no added line, has been parsed
C3_Witness ==
    /\ pc = "parsed"
    /\ IndicesOf(BodyLines, "remove") # {}
    /\ IndicesOf(BodyLines, "context") # {}
    /\ IndicesOf(BodyLines, "add") = {}
    /\ chunk = None
    /\ chunks = <<>>

\* the pairs (line_number, text) of a list of ChangedLine
PairsOf(cl) == [i \in 1..Len(cl) |-> <<cl[i].line_number, cl[i].content>>]

\* the indices 1..n in order
Indices(n) == [i \in 1..n |-> i]

\* C4: line i (0-based) of chunk.content is the new-file line start_line + i,
\* so get_changed_lines gives each non-blank content line the number the
\* walk recorded for that added line.
C4_ChangedLinesCarryRecordedNumbers ==
    pc \in {"listed", "rendered"} =>
        LET content_lines == SplitLines(chunk.content)
            nonblank == SelectSeq(Indices(Len(content_lines)),
                                  LAMBDA i : IsNonBlank(content_lines[i]))
        IN  /\ Len(content_lines) = Len(walk.added_lines)
            /\ \A i \in 1..Len(content_lines) :
                  chunk.start_line + (i - 1) = walk.added_lines[i]
            /\ PairsOf(changed) =
                  [k \in 1..Len(nonblank) |->
                      <<walk.added_lines[nonblank[k]], content_lines[nonblank[k]]>>]

\* the first physical line that enters the change region
FirstChange(lines) ==
    CHOOSE i \in IndicesOf(lines, "add") \cup IndicesOf(lines, "remove") :
        \A j \in IndicesOf(lines, "add") \cup IndicesOf(lines, "remove") : i <= j

\* the texts of the context lines at the indices lo..hi, in order
ContextTexts(lines, lo, hi) ==
    LET idx == SelectSeq(Indices(Len(lines)),
                         LAMBDA i : /\ LineClass(lines[i]) = "context"
                                    /\ lo <= i /\ i <= hi)
    IN  [k \in 1..Len(idx) |-> ContextText(lines[idx[k]])]

\* the number of lines of a stored context
NumLines(text) == IF text = "" THEN 0 ELSE Len(SplitLines(text))

\* C5: context_before is the last 10 (or fewer) context lines read before the
\* change region and context_after the first 10 (or fewer) read after
\* entering it, in input order; neither holds more than 10 lines.
C5_ContextCappedAtTen ==
    (pc # "start" /\ chunk # None) =>
        LET lines == BodyLines
            first == FirstChange(lines)
            before == ContextTexts(lines, 1, first - 1)
            after == ContextTexts(lines, first + 1, Len(lines))
            nb == Len(before)
        IN  /\ NumLines(chunk.context_before) <= 10
            /\ NumLines(chunk.context_after) <= 10
            /\ chunk.context_before =
                  JoinLines(SubSeq(before, IF nb > 10 THEN nb - 9 ELSE 1, nb))
            /\ chunk.context_after =
                  JoinLines(SubSeq(after, 1, IF Len(after) > 10 THEN 10 ELSE Len(after)))

\* a hunk with more than 10 context lines on each side has been parsed
C5_Witness ==
    /\ pc = "parsed"
    /\ chunk # None
    /\ Len(walk.context_before_lines) > 10
    /\ Len(walk.context_after_lines) > 10
    /\ NumLines(chunk.context_before) = 10
    /\ NumLines(chunk.context_after) = 10

\* the index of the line "=== Changed Lines ===" of a rendered block
ChangedHeaderIndex(lines) ==
    CHOOSE h \in 1..Len(lines) :
        /\ lines[h] = "=== Changed Lines ==="
        /\ \A g \in 1..(h - 1) : lines[g] # "=== Changed Lines ==="

\* the entries of the section: the lines after its header up to the first
\* empty line
SectionEntries(lines) ==
    LET h == ChangedHeaderIndex(lines)
        stop == CHOOSE e \in (h + 1)..Len(lines) :
                    /\ lines[e] = ""
                    /\ \A g \in (h + 1)..(e - 1) : lines[g] # ""
    IN  SubSeq(lines, h + 1, stop - 1)

\* an entry "N: text" read back as (N, text)
ReadEntry(entry) ==
    LET d == DigitsRun(entry, 1)
    IN  <<StrToNat(SubSeq(entry, 1, d)), SliceFrom(entry, d + 2)>>

\* the "N: text" entries of the "Changed Lines" section, read back
ReadChangedSection(text) ==
    LET entries == SectionEntries(SplitLines(text))
    IN  [i \in 1..Len(entries) |-> ReadEntry(entries[i])]

\* C6 as stated: the entries read back from the rendered "Changed Lines"
\* section are the (line_number, text) pairs of get_changed_lines, also for a
\* chunk with an empty or whitespace-only added line.
C6_RoundTripAllEntries ==
    pc = "rendered" => ReadChangedSection(rendered) = PairsOf(changed)

\* C6 amended: every entry is well formed, and the entries whose text is not
\* blank are, in order, the (line_number, text) pairs of get_changed_lines;
\* the entries with blank text are the ones get_changed_lines skips.
C6_RoundTripNonBlankEntries ==
    pc = "rendered" =>
        LET entries == SectionEntries(SplitLines(rendered))
        IN  /\ \A i \in 1..Len(entries) :
                  /\ DigitsRun(entries[i], 1) > 0
                  /\ SubSeq(entries[i], DigitsRun(entries[i], 1) + 1,
                            DigitsRun(entries[i], 1) + 2) = ": "
            /\ SelectSeq(ReadChangedSection(rendered),
                         LAMBDA e : IsNonBlank(e[2])) = PairsOf(changed)
            /\ Len(entries) = Len(SplitLines(chunk.content))

\* a chunk with a blank and a non-blank added line has been rendered
C6_Witness ==
    /\ pc = "rendered"
    /\ Len(changed) > 0
    /\ Len(changed) < Len(ReadChangedSection(rendered))
    /\ \E i \in 1..Len(changed) : changed[i].line_number >= 10

\* the "N: text" entries a rendered block prints under a section header: the
\* lines after the header up to the first empty line or the end, read back
EntriesUnder(text, header) ==
    LET lines == SplitLines(text)
    IN  IF \A h \in 1..Len(lines) : lines[h] # header THEN <<>>
        ELSE LET h == CHOOSE g \in 1..Len(lines) :
                          /\ lines[g] = header
                          /\ \A f \in 1..(g - 1) : lines[f] # header
                 stop == IF \E e \in (h + 1)..Len(lines) : lines[e] = ""
                         THEN CHOOSE e \in (h + 1)..Len(lines) :
                                  /\ lines[e] = ""
                                  /\ \A g \in (h + 1)..(e - 1) : lines[g] # ""
                         ELSE Len(lines) + 1
             IN  [k \in 1..(stop - h - 1) |-> ReadEntry(lines[h + k])]

\* the (counter, text) pairs of the context lines at the indices lo..hi: the
\* value current_line held when each line was read, and the line's text
ContextReadings(start, lines, lo, hi) ==
    LET idx == SelectSeq(Indices(Len(lines)),
                         LAMBDA i : /\ LineClass(lines[i]) = "context"
                                    /\ lo <= i /\ i <= hi)
    IN  [k \in 1..Len(idx) |->
            <<start + CountedBefore(lines, idx[k]), ContextText(lines[idx[k]])>>]

\* C13: every "Context Before" line is printed with the number the counter
\* held when parse_hunk read it, and so is every "Context After" line, for
\* every hunk body, also when a removed line or a context line precedes a
\* later added line.
C13_ContextNumbersFollowCounter ==
    pc = "rendered" =>
        LET lines == BodyLines
            first == FirstChange(lines)
            before == TrimBefore(ContextReadings(start_line, lines, 1, first - 1))
            after == TrimAfter(ContextReadings(start_line, lines, first + 1,
                                               Len(lines)))
        IN  /\ chunk.context_before # "" =>
                  EntriesUnder(rendered, "=== Context Before ===") = before
            /\ chunk.context_after # "" =>
                  EntriesUnder(rendered, "=== Context After ===") = after

-----------------------------------------------------------------------------
(* The diff-level driver: parse_diff on the text `git diff` prints for one  *)
(* file with one hunk, then get_changed_lines and format_chunk_for_review   *)
(* on a chunk of the result.                                                *)

\* the first character of a body line says what kind of line it is
IsAddedBodyLine(line) == StartsWith(line, "+")
IsRemovedBodyLine(line) == StartsWith(line, "-")
IsContextBodyLine(line) == StartsWith(line, " ")
IsNoNewlineMarker(line) == line = "\\ No newline at end of file"

\* the kind of a body line
BodyLineKind(line) ==
    IF IsAddedBodyLine(line) THEN "added"
    ELSE IF IsRemovedBodyLine(line) THEN "removed"
    ELSE IF IsContextBodyLine(line) THEN "context"
    ELSE "other"

\* the number of body lines of the given kinds
CountLines(body, kinds) ==
    Cardinality({i \in 1..Len(body) : BodyLineKind(body[i]) \in kinds})

\* the range "start,count" of a hunk header; git omits a count of 1
RangeText(start, count) ==
    IF count = 1 THEN IntToStr(start)
    ELSE IntToStr(start) \o "," \o IntToStr(count)

\* the hunk header line git prints for a body
HunkHeader(d) ==
    LET old_count == CountLines(d.body, {"context", "removed"})
        new_count == CountLines(d.body, {"context", "added"})
        old_start == IF old_count = 0 THEN d.start - 1 ELSE d.start
    IN  "@@ -" \o RangeText(old_start, old_count)
        \o " +" \o RangeText(d.start, new_count) \o " @@" \o d.heading

\* the text `git diff` prints for one file with one hunk
RenderDiff(d) ==
    JoinLines(<<"diff --git a/" \o d.path \o " b/" \o d.path>>
              \o (IF d.new_file THEN <<"new file mode 100644">> ELSE <<>>)
              \o <<"index 83db48f..bf2a6d1 100644",
                   IF d.new_file THEN "--- /dev/null" ELSE "--- a/" \o d.path,
                   "+++ b/" \o d.path,
                   HunkHeader(d)>>
              \o d.body \o <<"">>)

\* a diff git can print: a hunk has lines, each one an added, removed or
\* context line or the no-newline marker, and at least one is a change;
\* a section heading is a line of the file above the hunk, so a hunk from
\* line 1 has none; a created file has added lines only, from line 1
WellFormedDiff(d) ==
    /\ Len(d.body) > 0
    /\ \A i \in 1..Len(d.body) :
          \/ IsAddedBodyLine(d.body[i]) \/ IsRemovedBodyLine(d.body[i])
          \/ IsContextBodyLine(d.body[i]) \/ IsNoNewlineMarker(d.body[i])
    /\ \E i \in 1..Len(d.body) :
          IsAddedBodyLine(d.body[i]) \/ IsRemovedBodyLine(d.body[i])
    /\ d.heading # "" => d.start > 1
    /\ d.new_file =>
          /\ d.start = 1
          /\ \A i \in 1..Len(d.body) :
                IsAddedBodyLine(d.body[i]) \/ IsNoNewlineMarker(d.body[i])

\* the body lines of the short diffs
DiffLines == {" a", " \\b", " ", "+a", "+", "-a"}

\* the section headings git appends to a hunk header
Headings == {"", " intro"}

\* the texts of the lines of the two scenarios
PlainTexts == {"a", "b"}

ShortDiffs ==
    {[path |-> "doc/intro.tex", new_file |-> n, start |-> s, heading |-> h,
      body |-> b] :
        n \in BOOLEAN, s \in StartLines, h \in Headings,
        b \in SeqsUpTo(DiffLines, MaxDiffBody)}

\* an existing file, @@ -10,5 +10,7 @@, two context lines, one removed
\* line, three added lines, two context lines
IntroScenarioDiffs ==
    {[path |-> "doc/intro.tex", new_file |-> FALSE, start |-> 10, heading |-> "",
      body |-> <<" " \o t[1], " " \o t[2], "-" \o t[3], "+" \o t[4], "+" \o t[5],
                 "+" \o t[6], " " \o t[7], " " \o t[8]>>] :
        t \in [1..8 -> PlainTexts]}

\* a created file, one hunk from line 1, three added lines
NewFileScenarioDiffs ==
    {[path |-> "doc/intro.tex", new_file |-> TRUE, start |-> 1, heading |-> "",
      body |-> <<"+" \o t[1], "+" \o t[2], "+" \o t[3]>>] :
        t \in [1..3 -> PlainTexts]}

DiffInputs == ShortDiffs \cup IntroScenarioDiffs \cup NewFileScenarioDiffs

InitDiff ==
    /\ pc = "diff"
    /\ given \in DiffInputs
    /\ diff_output = RenderDiff(given)
    /\ file_path = ""
    /\ start_line = 0
    /\ hunk_content = ""
    /\ is_new_file = FALSE
    /\ walk = NoWalk
    /\ chunk = None
    /\ changed = <<>>
    /\ rendered = ""
    /\ chunks = <<>>
    /\ include_patterns = <<>>
    /\ exclude_patterns = <<>>
    /\ filtered = <<>>
    /\ refiltered = <<>>
    /\ lines_read = 0
    /\ ClientsIdle

\* chunks = parse_diff(diff_output)
ParseDiff ==
    /\ pc = "diff"
    /\ chunks' = parse_diff(diff_output)
    /\ pc' = "chunks"
    /\ UNCHANGED <<clientVars, walkVars, hunkVars, walk, chunk, changed, rendered, diffVars,
                   filterVars, filtered, refiltered>>

\* `for chunk in chunks`: the caller takes a chunk of the list
TakeChunk ==
    /\ pc = "chunks"
    /\ \E k \in 1..Len(chunks) : chunk' = chunks[k]
    /\ pc' = "parsed"
    /\ UNCHANGED <<clientVars, walkVars, hunkVars, walk, changed, rendered, diffVars, chunks,
                   filterVars, filtered, refiltered>>

NextDiff == ParseDiff \/ TakeChunk \/ GetChangedLines \/ FormatChunk

SpecDiff == InitDiff /\ [][NextDiff]_vars

-----------------------------------------------------------------------------
(* Properties of parse_diff, checked under SpecDiff.                        *)

\* the hunk text parse_diff hands to parse_hunk for the one hunk of a diff
OnlyHunkText(text) ==
    LET file_matches == FileMatchesFrom(text, 0)
        file_diff == SubSeq(text, file_matches[1].end + 1, Len(text))
    IN  HunkText(file_diff, HunkMatchesFrom(file_diff, 0), 1)

\* C2: every chunk of a well-formed single-hunk diff has start_line <=
\* end_line, the two are the least and the greatest recorded added-line
\* number, and both lie in the new-file span of the hunk: from the declared
\* start to the declared start plus the number of added and context lines of
\* the body, less one.
C2_ChunkWithinHunkSpan ==
    (pc # "diff" /\ WellFormedDiff(given)) =>
        \A k \in 1..Len(chunks) :
            LET c == chunks[k]
                added == HunkWalk(given.start, OnlyHunkText(diff_output)).added_lines
            IN  /\ c.start_line <= c.end_line
                /\ c.start_line = MinOf(added)
                /\ c.end_line = MaxOf(added)
                /\ given.start <= c.start_line
                /\ c.end_line <= given.start
                                + CountLines(given.body, {"added", "context"}) - 1

\* the text of a body line: the line without its marker
BodyText(line) == SliceFrom(line, 1)

\* C9: the diff of the existing file doc/intro.tex with the hunk header
\* @@ -10,5 +10,7 @@, two context lines, one removed line, three added lines
\* and two context lines gives exactly one chunk: lines 12 to 14, the two
\* leading context lines before, the two trailing ones after, the three
\* added lines as content, not a new file.
C9_IntroScenario ==
    (pc # "diff" /\ given \in IntroScenarioDiffs) =>
        chunks = <<[file_path |-> "doc/intro.tex",
                    start_line |-> 12,
                    end_line |-> 14,
                    content |-> JoinLines(<<BodyText(given.body[4]),
                                            BodyText(given.body[5]),
                                            BodyText(given.body[6])>>),
                    context_before |-> JoinLines(<<BodyText(given.body[1]),
                                                   BodyText(given.body[2])>>),
                    context_after |-> JoinLines(<<BodyText(given.body[7]),
                                                  BodyText(given.body[8])>>),
                    is_new_file |-> FALSE]>>

\* the scenario's diff, with its header as stated, has been parsed
C9_Witness ==
    /\ pc = "chunks"
    /\ given \in IntroScenarioDiffs
    /\ Contains(diff_output, "\n@@ -10,5 +10,7 @@\n")
    /\ StartsWith(diff_output, "diff --git a/doc/intro.tex b/doc/intro.tex\n")
    /\ Len(chunks) = 1

\* C10: a created file (the marker `new file mode` at the top of its
\* section) with one hunk from line 1 and three added lines gives exactly one
\* chunk: is_new_file, lines 1 to 3, no context before; get_changed_lines
\* tags every line of that chunk `add`, and every line of a chunk that is
\* not of a new file `modify`.
C10_NewFileScenario ==
    /\ (pc # "diff" /\ given \in NewFileScenarioDiffs) =>
          /\ Len(chunks) = 1
          /\ chunks[1].is_new_file = TRUE
          /\ chunks[1].start_line = 1
          /\ chunks[1].end_line = 3
          /\ chunks[1].context_before = ""
    /\ (pc \in {"listed", "rendered"} /\ given \in NewFileScenarioDiffs) =>
          /\ Len(changed) = 3
          /\ \A i \in 1..Len(changed) : changed[i].change_type = "add"
    /\ (pc \in {"listed", "rendered"} /\ ~given.new_file) =>
          \A i \in 1..Len(changed) : changed[i].change_type = "modify"

\* the lines of the created file's chunk have been listed
C10_Witness ==
    /\ pc = "listed"
    /\ given \in NewFileScenarioDiffs
    /\ Contains(SliceTo(diff_output, 80), "\nnew file mode")
    /\ Contains(diff_output, "\n@@ -0,0 +1,3 @@\n")
    /\ Len(changed) = 3

\* the diff as git prints it without a section heading on its hunk header
WithoutHeading(d) == [d EXCEPT !.heading = ""]

\* C15: the text after the closing marker of the hunk-header line is not part
\* of the body: it is not stored in context_before and does not advance the
\* counter, so a diff gives the chunks it gives without that text, and an
\* added line that is the first body line gets the declared start line.
C15_HeadingNotInBody ==
    (pc # "diff" /\ WellFormedDiff(given)) =>
        /\ chunks = parse_diff(RenderDiff(WithoutHeading(given)))
        /\ (IsAddedBodyLine(given.body[1]) /\ ~IsPlusHeader(given.body[1])) =>
              /\ Len(chunks) = 1
              /\ chunks[1].start_line = given.start
              /\ chunks[1].context_before = ""

\* C15 on the diffs whose hunk header carries no heading
C15_HoldsWithoutHeading ==
    given.heading = "" => C15_HeadingNotInBody

\* the texts of the body lines at lo..hi that carry the context marker
ContextBodyTexts(body, lo, hi) ==
    LET idx == SelectSeq(Indices(Len(body)),
                         LAMBDA i : /\ IsContextBodyLine(body[i])
                                    /\ lo <= i /\ i <= hi)
    IN  [k \in 1..Len(idx) |-> BodyText(body[idx[k]])]

\* the index of the first added or removed line of a body
FirstChangedBodyLine(body) ==
    CHOOSE i \in 1..Len(body) :
        /\ BodyLineKind(body[i]) \in {"added", "removed"}
        /\ \A j \in 1..(i - 1) : BodyLineKind(body[j]) \notin {"added", "removed"}

\* C16: in the walk of the hunk text of a diff whose hunk header has no
\* heading, every body line with the context marker is taken as context and
\* advances the counter by one, whatever its text (a leading backslash, a
\* blank text) and wherever it stands (first, last): the counter ends at the
\* declared start plus the number of added and context lines, and the
\* before- and after-context are the texts of the context lines before and
\* after the first change.
C16_ContextLinesCounted ==
    (pc # "diff" /\ WellFormedDiff(given) /\ given.heading = "") =>
        LET st == HunkWalk(given.start, OnlyHunkText(diff_output))
            first == FirstChangedBodyLine(given.body)
        IN  /\ st.current_line
                  = given.start + CountLines(given.body, {"added", "context"})
            /\ st.context_before_lines
                  = ContextBodyTexts(given.body, 1, first - 1)
            /\ st.context_after_lines
                  = ContextBodyTexts(given.body, first + 1, Len(given.body))

\* C16 on the diffs whose first and last body lines have ordinary text
C16_HoldsForPlainEnds ==
    (/\ given.body # <<>>
     /\ given.body[1] \notin {" ", " \\b"}
     /\ given.body[Len(given.body)] # " ") => C16_ContextLinesCounted

-----------------------------------------------------------------------------
(* The filter driver: filter_chunks_by_patterns on a chunk list, and again  *)
(* on its own result.                                                       *)

FilterPaths == {"chapters/preamble.tex", "chapters/intro.tex", "intro.tex"}

FilterPatterns == {"**/*.tex", "**/preamble.tex", "?ntro.*"}

\* the chunk at position i of a list, for the file at path
PathChunk(path, i) ==
    [file_path |-> path, start_line |-> i, end_line |-> i, content |-> "a",
     context_before |-> "", context_after |-> "", is_new_file |-> FALSE]

ChunkLists ==
    {[i \in 1..Len(ps) |-> PathChunk(ps[i], i)] :
        ps \in SeqsUpTo(FilterPaths, MaxChunks)}

\* the pattern lists: every ordering of every subset of FilterPatterns
PatternLists ==
    {ps \in SeqsUpTo(FilterPatterns, Cardinality(FilterPatterns)) :
        \A i, j \in 1..Len(ps) : i # j => ps[i] # ps[j]}

InitFilter ==
    /\ pc = "chunks"
    /\ chunks \in ChunkLists
    /\ include_patterns \in PatternLists
    /\ exclude_patterns \in PatternLists
    /\ filtered = <<>>
    /\ refiltered = <<>>
    /\ given = [input |-> chunks]
    /\ diff_output = ""
    /\ file_path = ""
    /\ start_line = 0
    /\ hunk_content = ""
    /\ is_new_file = FALSE
    /\ walk = NoWalk
    /\ chunk = None
    /\ changed = <<>>
    /\ rendered = ""
    /\ lines_read = 0
    /\ ClientsIdle

\* filtered = filter_chunks_by_patterns(chunks, include, exclude)
FilterChunks ==
    /\ pc = "chunks"
    /\ filtered' = filter_chunks_by_patterns(chunks, include_patterns,
                                             exclude_patterns)
    /\ pc' = "filtered"
    /\ UNCHANGED <<clientVars, walkVars, hunkVars, walk, chunk, changed, rendered, diffVars, chunks,
                   filterVars, refiltered>>

\* refiltered = filter_chunks_by_patterns(filtered, include, exclude)
FilterAgain ==
    /\ pc = "filtered"
    /\ refiltered' = filter_chunks_by_patterns(filtered, include_patterns,
                                               exclude_patterns)
    /\ pc' = "refiltered"
    /\ UNCHANGED <<clientVars, walkVars, hunkVars, walk, chunk, changed, rendered, diffVars, chunks,
                   filterVars, filtered>>

NextFilter == FilterChunks \/ FilterAgain

SpecFilter == InitFilter /\ [][NextFilter]_vars

-----------------------------------------------------------------------------
(* Properties of filter_chunks_by_patterns, checked under SpecFilter.       *)

\* the path matches one of the patterns
MatchesAny(path, patterns) ==
    \E i \in 1..Len(patterns) : fnmatch(path, patterns[i])

\* C7: a chunk is kept exactly when its path matches an include pattern and
\* no exclude pattern (exclude wins; no include pattern keeps nothing); the
\* result is the kept chunks in input order, each decided alone.  With include
\* **/*.tex and exclude **/preamble.tex, chapters/preamble.tex is dropped and
\* chapters/intro.tex is kept.
C7_KeptIffIncludedNotExcluded ==
    pc # "chunks" =>
        /\ filtered =
              SelectSeq(chunks,
                        LAMBDA c : /\ MatchesAny(c.file_path, include_patterns)
                                   /\ ~MatchesAny(c.file_path, exclude_patterns))
        /\ include_patterns = <<>> => filtered = <<>>
        /\ (include_patterns = <<"**/*.tex">>
            /\ exclude_patterns = <<"**/preamble.tex">>) =>
              filtered = SelectSeq(chunks,
                                   LAMBDA c : c.file_path = "chapters/intro.tex")

\* the scenario's two chunks have been filtered with the scenario's patterns
C7_Witness ==
    /\ pc = "filtered"
    /\ include_patterns = <<"**/*.tex">>
    /\ exclude_patterns = <<"**/preamble.tex">>
    /\ \E i, j \in 1..Len(chunks) :
          /\ chunks[i].file_path = "chapters/preamble.tex"
          /\ chunks[j].file_path = "chapters/intro.tex"
    /\ Len(filtered) = 1
    /\ filtered[1].file_path = "chapters/intro.tex"

\* C8: filtering the result again with the same patterns gives the same
\* result, and a call leaves the chunk list it was given as the caller built
\* it.
C8_FilterIdempotentAndPure ==
    /\ pc = "refiltered" => refiltered = filtered
    /\ chunks = given.input

\* a filter that keeps some chunks and drops others has been applied twice
C8_Witness ==
    /\ pc = "refiltered"
    /\ Len(filtered) >= 1
    /\ Len(filtered) < Len(chunks)

-----------------------------------------------------------------------------
(* The section-level driver: parse_diff on a text made of blocks in any     *)
(* order: file headers, hunks, hunks with a malformed header and lines that *)
(* are neither.  A text of blocks in the order git prints them is a diff of *)
(* several files with several hunks; the other orders are malformed input.  *)

\* most blocks of a text
MaxBlocks == 4

\* the header of a file section: a renamed file or a created file
FileBlock(old_path, path, new_file) ==
    [kind |-> "file", old_path |-> old_path, path |-> path,
     new_file |-> new_file, start |-> 0, body |-> <<>>]

\* a hunk: its declared start and its body lines
HunkBlock(start, body) ==
    [kind |-> "hunk", old_path |-> "", path |-> "", new_file |-> FALSE,
     start |-> start, body |-> body]

\* a hunk whose header line lacks the closing marker
BadHunkBlock(start, body) ==
    [kind |-> "badhunk", old_path |-> "", path |-> "", new_file |-> FALSE,
     start |-> start, body |-> body]

\* a line that is neither a file header nor a hunk header
TextBlock ==
    [kind |-> "text", old_path |-> "", path |-> "", new_file |-> FALSE,
     start |-> 0, body |-> <<>>]

SectionBlocks ==
    {FileBlock("old/a.tex", "doc/a.tex", FALSE),
     FileBlock("doc/b.tex", "doc/b.tex", TRUE),
     HunkBlock(3, <<" a", "+b">>),
     HunkBlock(20, <<"-a">>),
     HunkBlock(31, <<"+c", "+d">>),
     BadHunkBlock(7, <<"+x">>),
     TextBlock}

\* the lines git prints for a block
BlockLines(b) ==
    IF b.kind = "file"
    THEN <<"diff --git a/" \o b.old_path \o " b/" \o b.path>>
         \o (IF b.new_file THEN <<"new file mode 100644">> ELSE <<>>)
         \o (IF b.old_path # b.path
             THEN <<"similarity index 90%", "rename from " \o b.old_path,
                    "rename to " \o b.path>>
             ELSE <<>>)
         \o <<"index 83db48f..bf2a6d1 100644",
              IF b.new_file THEN "--- /dev/null" ELSE "--- a/" \o b.old_path,
              "+++ b/" \o b.path>>
    ELSE IF b.kind = "hunk"
    THEN <<HunkHeader([start |-> b.start, body |-> b.body, heading |-> ""])>>
         \o b.body
    ELSE IF b.kind = "badhunk"
    THEN <<"@@ -" \o IntToStr(b.start) \o " +" \o IntToStr(b.start) \o ",2">>
         \o b.body
    ELSE <<"Binary files a/fig.pdf and b/fig.pdf differ">>

\* the lines of the blocks from index i on
RECURSIVE BlocksLinesFrom(_, _)
BlocksLinesFrom(bs, i) ==
    IF i > Len(bs) THEN <<>>
    ELSE BlockLines(bs[i]) \o BlocksLinesFrom(bs, i + 1)

\* the text of a list of blocks, each line ended by a newline
RenderBlocks(bs) == JoinLines(BlocksLinesFrom(bs, 1) \o <<"">>)

InitSections ==
    /\ pc = "diff"
    /\ given \in SeqsUpTo(SectionBlocks, MaxBlocks)
    /\ diff_output = RenderBlocks(given)
    /\ file_path = ""
    /\ start_line = 0
    /\ hunk_content = ""
    /\ is_new_file = FALSE
    /\ walk = NoWalk
    /\ chunk = None
    /\ changed = <<>>
    /\ rendered = ""
    /\ chunks = <<>>
    /\ include_patterns = <<>>
    /\ exclude_patterns = <<>>
    /\ filtered = <<>>
    /\ refiltered = <<>>
    /\ lines_read = 0
    /\ ClientsIdle

SpecSections == InitSections /\ [][NextDiff]_vars

-----------------------------------------------------------------------------
(* Properties of parse_diff on texts of blocks, checked under SpecSections. *)

\* the file block whose section holds block i, or 0 before the first one
SectionOf(bs, i) ==
    IF \E f \in 1..i : bs[f].kind = "file"
    THEN CHOOSE f \in 1..i :
             /\ bs[f].kind = "file"
             /\ \A g \in (f + 1)..i : bs[g].kind # "file"
    ELSE 0

\* the hunk block whose region holds the lines of block i: the last block
\* with a well-formed hunk header at or before i in i's section, or 0
OwnerOf(bs, i) ==
    IF \E h \in (SectionOf(bs, i) + 1)..i :
           SectionOf(bs, i) > 0 /\ bs[h].kind = "hunk"
    THEN CHOOSE h \in (SectionOf(bs, i) + 1)..i :
             /\ bs[h].kind = "hunk"
             /\ \A g \in (h + 1)..i : bs[g].kind # "hunk"
    ELSE 0

\* the texts of the added lines of a body, in order
AddedTexts(body) ==
    LET added == SelectSeq(body, LAMBDA line : IsAddedBodyLine(line))
    IN  [k \in 1..Len(added) |-> BodyText(added[k])]

\* the texts of the added lines of the region of hunk block h, from block i on
RECURSIVE RegionAddedFrom(_, _, _)
RegionAddedFrom(bs, h, i) ==
    IF i > Len(bs) \/ OwnerOf(bs, i) # h THEN <<>>
    ELSE AddedTexts(bs[i].body) \o RegionAddedFrom(bs, h, i + 1)

RegionAdded(bs, h) == RegionAddedFrom(bs, h, h)

\* the hunk blocks that lie in a file section and have an added line in
\* their region, in input order
EmittingHunks(bs) ==
    SelectSeq(Indices(Len(bs)),
              LAMBDA h : /\ bs[h].kind = "hunk"
                         /\ SectionOf(bs, h) > 0
                         /\ RegionAdded(bs, h) # <<>>)

\* a fully assembled DiffChunk: every field is there and has its type
IsWholeChunk(c) ==
    /\ c # None
    /\ DOMAIN c = {"file_path", "start_line", "end_line", "content",
                   "context_before", "context_after", "is_new_file"}
    /\ c.file_path \in STRING /\ c.file_path # ""
    /\ c.start_line \in Nat /\ c.end_line \in Nat
    /\ 1 <= c.start_line /\ c.start_line <= c.end_line
    /\ c.content \in STRING
    /\ c.context_before \in STRING /\ c.context_after \in STRING
    /\ c.is_new_file \in BOOLEAN

\* the argument of int() for a line hunk_pattern matches: its group 2
HunkNewStartText(line) ==
    LET i == HunkOldEnd(line) + 2
    IN  SubSeq(line, i, i + DigitsRun(line, i) - 1)

\* the call of parse_diff that can raise is applied inside its domain: int()
\* gets a non-empty run of digits from every line hunk_pattern matches
RaisingCallsInDomain(text) ==
    LET lines == SplitLines(text)
    IN  \A i \in 1..Len(lines) :
            HunkLineMatches(lines[i]) =>
                /\ HunkNewStartText(lines[i]) # ""
                /\ DigitsRun(HunkNewStartText(lines[i]), 1)
                      = Len(HunkNewStartText(lines[i]))

\* C11: parse_diff has a result for every text (int() is applied inside its
\* domain, min() and max() are guarded by the test of MakeChunk); a text
\* with no file-start marker gives the empty list; the list has one chunk for
\* each hunk that lies in a file section and has an added line in its region
\* and nothing else, so a section with no or only malformed hunk headers and
\* a hunk without added lines give none; the sections are parsed one by one:
\* the list is the chunks of the text before a file header followed by the
\* chunks of the text from it on; every chunk is fully assembled.
C11_ParseDiffTotal ==
    /\ pc = "diff" => RaisingCallsInDomain(diff_output)
    /\ pc = "chunks" =>
          /\ (\A i \in 1..Len(given) : given[i].kind # "file") => chunks = <<>>
          /\ Len(chunks) = Len(EmittingHunks(given))
          /\ \A k \in 1..Len(chunks) : IsWholeChunk(chunks[k])
          /\ \A f \in 1..Len(given) :
                given[f].kind = "file" =>
                    chunks = parse_diff(RenderBlocks(SubSeq(given, 1, f - 1)))
                             \o parse_diff(RenderBlocks(SubSeq(given, f, Len(given))))

\* a text has been parsed whose first section has only a malformed hunk
\* header and whose second section has a hunk with an added line
C11_Witness ==
    /\ pc = "chunks"
    /\ Len(given) = 4
    /\ given[1].kind = "file" /\ given[2].kind = "badhunk"
    /\ given[3].kind = "file" /\ given[4].kind = "hunk"
    /\ Len(chunks) = 1
    /\ chunks[1].file_path = given[3].path

\* what the chunk of hunk block h carries of its section and of its hunk
ExpectedOrigin(bs, h) ==
    [file_path |-> bs[SectionOf(bs, h)].path,
     is_new_file |-> bs[SectionOf(bs, h)].new_file,
     content |-> JoinLines(RegionAdded(bs, h))]

\* the same three fields of a chunk
OriginOf(c) ==
    [file_path |-> c.file_path, is_new_file |-> c.is_new_file,
     content |-> c.content]

\* C12: the chunks come in input order: the list is, hunk by hunk in the
\* order of the text, one chunk for each hunk that has one, so the chunks of
\* an earlier section precede those of a later one and the chunks of one file
\* follow the order of its hunks; each chunk carries the new-revision path
\* and the new-file flag of the section its hunk lies in.
C12_ChunksInInputOrder ==
    pc # "diff" =>
        LET hs == EmittingHunks(given)
        IN  /\ Len(chunks) = Len(hs)
            /\ \A k \in 1..Len(chunks) :
                  OriginOf(chunks[k]) = ExpectedOrigin(given, hs[k])
            /\ \A k \in 1..(Len(hs) - 1) : hs[k] < hs[k + 1]

\* two sections, the first of a renamed file and the second of a created
\* one, each with a hunk that has added lines, have been parsed
C12_Witness ==
    /\ pc = "chunks"
    /\ Len(given) = 4
    /\ given[1].kind = "file" /\ given[1].old_path # given[1].path
    /\ given[2].kind = "hunk"
    /\ given[3].kind = "file" /\ given[3].new_file
    /\ given[4].kind = "hunk"
    /\ Len(chunks) = 2
    /\ chunks[1].file_path = "doc/a.tex" /\ ~chunks[1].is_new_file
    /\ chunks[2].file_path = "doc/b.tex" /\ chunks[2].is_new_file

-----------------------------------------------------------------------------
(* The line-level driver: the loop of parse_hunk, one physical line of the  *)
(* hunk text at a time.                                                     *)

\* lines = hunk_content.split('\n') and the locals before the loop
BeginWalk ==
    /\ pc = "start"
    /\ walk' = WalkInit(start_line)
    /\ lines_read' = 0
    /\ pc' = "walking"
    /\ UNCHANGED <<clientVars, hunkVars, chunk, changed, rendered, diffVars, chunks,
                   filterVars, filtered, refiltered>>

\* one iteration of `for line in lines`
WalkLine ==
    /\ pc = "walking"
    /\ lines_read < Len(SplitLines(hunk_content))
    /\ walk' = HunkStep(walk, SplitLines(hunk_content)[lines_read + 1])
    /\ lines_read' = lines_read + 1
    /\ UNCHANGED <<clientVars, pc, hunkVars, chunk, changed, rendered, diffVars, chunks,
                   filterVars, filtered, refiltered>>

\* the loop has ended: parse_hunk returns None or the chunk it builds, and
\* parse_diff appends the chunk
EndWalk ==
    /\ pc = "walking"
    /\ lines_read = Len(SplitLines(hunk_content))
    /\ chunk' = IF ~HunkHasChanges(walk) THEN None
                ELSE MakeChunk(file_path, start_line, walk, is_new_file)
    /\ chunks' = IF Truthy(chunk') THEN Append(chunks, chunk') ELSE chunks
    /\ pc' = "parsed"
    /\ UNCHANGED <<clientVars, walkVars, hunkVars, walk, changed, rendered, diffVars,
                   filterVars, filtered, refiltered>>

NextWalk == BeginWalk \/ WalkLine \/ EndWalk

SpecWalk == InitHunk /\ [][NextWalk]_vars

-----------------------------------------------------------------------------
(* Properties of the loop of parse_hunk, checked under SpecWalk.            *)

\* the index of the first added or removed line among the first n lines, or
\* n + 1 when there is none
FirstChangeWithin(lines, n) ==
    IF \E i \in 1..n : LineClass(lines[i]) \in {"add", "remove"}
    THEN CHOOSE i \in 1..n :
             /\ LineClass(lines[i]) \in {"add", "remove"}
             /\ \A j \in 1..(i - 1) : LineClass(lines[j]) \notin {"add", "remove"}
    ELSE n + 1

\* C14: in the walk of one hunk body in_change is false at the start, true
\* from the first added or removed line on and never false again; the context
\* lines read before that line are the before-context and the context lines
\* read after it are the after-context, each in input order; a hunk whose
\* first line is an added or removed line gives an empty context_before; the
\* walk, line by line, ends with what parse_hunk returns.
C14_InChangeLatches ==
    /\ pc = "walking" =>
          LET lines == BodyLines
              first == FirstChangeWithin(lines, lines_read)
          IN  /\ lines_read = 0 => ~walk.in_change
              /\ walk.in_change <=> first <= lines_read
              /\ walk.context_before_lines = ContextTexts(lines, 1, first - 1)
              /\ walk.context_after_lines =
                    ContextTexts(lines, first + 1, lines_read)
    /\ pc = "parsed" =>
          /\ chunk = parse_hunk(file_path, start_line, hunk_content, is_new_file)
          /\ (chunk # None /\ LineClass(BodyLines[1]) \in {"add", "remove"}) =>
                chunk.context_before = ""

\* a walk has read context lines on both sides of a change
C14_Witness ==
    /\ pc = "walking"
    /\ lines_read = Len(BodyLines)
    /\ walk.in_change
    /\ Len(walk.context_before_lines) > 0
    /\ Len(walk.context_after_lines) > 0
    /\ LineClass(BodyLines[lines_read]) = "context"

-----------------------------------------------------------------------------
(* OpenAIClient.review_chunk and _call_api_with_retry (openai_client.py).   *)

\* greatest max_retries the client is built with
MaxRetries == 3

\* base_delay: float = 1.0
BaseDelay == 1
\* `if e.status_code >= 500`
ServerErrorFloor == 500

\* the variables of the diff parser
parserVars == <<hunkVars, walk, chunk, changed, rendered, diffVars, chunks,
                filterVars, filtered, refiltered, walkVars>>

\* the diff parser is not in use
ParserIdle ==
    /\ file_path = ""
    /\ start_line = 0
    /\ hunk_content = ""
    /\ is_new_file = FALSE
    /\ walk = NoWalk
    /\ chunk = None
    /\ changed = <<>>
    /\ rendered = ""
    /\ given = None
    /\ diff_output = ""
    /\ chunks = <<>>
    /\ include_patterns = <<>>
    /\ exclude_patterns = <<>>
    /\ filtered = <<>>
    /\ refiltered = <<>>
    /\ lines_read = 0

\* what a call of chat.completions.create can do: return a response (with no
\* choice, or with a choice whose content is a str or None) or raise
ApiOutcome(kind, status_code, has_choice, content) ==
    [kind |-> kind, status_code |-> status_code, has_choice |-> has_choice,
     content |-> content]

\* the response texts of the model
SummaryJson == "{\"summary\": \"ok\", \"comments\": []}"
CommentJson == "{\"comments\": [{\"line\": 3, \"severity\": \"error\"}]}"
ListJson == "[]"
ResponseTexts ==
    {SummaryJson, "\n" \o SummaryJson \o "\n", CommentJson, ListJson,
     "not json"}

ApiOutcomes ==
    {ApiOutcome("ok", 200, TRUE, Str(t)) : t \in ResponseTexts}
    \cup {ApiOutcome("ok", 200, TRUE, None), ApiOutcome("ok", 200, FALSE, None),
          ApiOutcome("RateLimitError", 429, FALSE, None),
          ApiOutcome("Exception", 0, FALSE, None)}
    \cup {ApiOutcome("APIStatusError", c, FALSE, None) : c \in {400, 499, 500, 503}}

\* a mutant of the server-error test: every status error is retried
IsServerErrorAnyStatus(status_code) == status_code >= 0

\* e.status_code >= 500
IsServerError(status_code) == status_code >= ServerErrorFloor

\* the except clause that takes the outcome waits and lets the loop go on
IsRetried(outcome) ==
    \/ outcome.kind = "RateLimitError"
    \/ outcome.kind = "APIStatusError" /\ IsServerError(outcome.status_code)

\* what the try block returns for a response
ResponseContent(outcome) ==
    IF outcome.has_choice THEN outcome.content ELSE Str("")

\* self.base_delay * (2 ** attempt)
Delay(n) == BaseDelay * (2 ^ n)

\* the text _parse_response hands to json.loads, for a response that is not
\* wrapped in a markdown code block (the model has no such response)
JsonText(text) == Strip(Strip(text))

\* json.loads on the texts of the model: the decoded value, or the error
JsonLoads(text) ==
    IF text = SummaryJson
    THEN [type |-> "dict", value |-> [summary |-> "ok", comments |-> <<>>]]
    ELSE IF text = CommentJson
    THEN [type |-> "dict",
          value |-> [comments |-> <<[line |-> 3, severity |-> "error"]>>]]
    ELSE IF text = ListJson
    THEN [type |-> "list", value |-> <<>>]
    ELSE [type |-> "JSONDecodeError", value |-> "Expecting value"]

\* d.get(key, default)
Get(d, key, default) == IF key \in DOMAIN d THEN d[key] ELSE default

\* the ReviewComment built from one entry of data["comments"]
MakeComment(comment_data) ==
    [line |-> Get(comment_data, "line", 0),
     severity |-> Get(comment_data, "severity", "suggestion"),
     category |-> Get(comment_data, "category", "general"),
     issue |-> Get(comment_data, "issue", ""),
     suggestion |-> Get(comment_data, "suggestion", ""),
     explanation |-> Get(comment_data, "explanation", "")]

ReviewResult(summary, comments, raw_response, error) ==
    [summary |-> summary, comments |-> comments,
     raw_response |-> raw_response, error |-> error]

\* an exception that leaves review_chunk
Raised(name) == [raised |-> name]

\* _parse_response(response_text)
parse_response(text) ==
    LET data == JsonLoads(JsonText(text))
    IN  IF data.type = "JSONDecodeError"
        THEN ReviewResult("Failed to parse review response", <<>>, text,
                          Str("JSON parse error: " \o data.value))
        ELSE IF data.type # "dict" THEN Raised("AttributeError")
        ELSE LET entries == Get(data.value, "comments", <<>>)
             IN  ReviewResult(Get(data.value, "summary", "No summary provided"),
                              [k \in 1..Len(entries) |-> MakeComment(entries[k])],
                              text, None)

\* the ReviewResult of review_chunk when _call_api_with_retry returned None
FailedReview ==
    ReviewResult("Review failed due to API errors", <<>>, "",
                 Str("Failed after maximum retries"))

nonApiVars == <<parserVars, reviewVars, githubVars>>

InitApi ==
    /\ pc = "review_chunk"
    /\ max_retries \in 0..MaxRetries
    /\ attempt = 0
    /\ last_error = None
    /\ api_calls = <<>>
    /\ slept = <<>>
    /\ response_text = None
    /\ review_result = None
    /\ ParserIdle
    /\ ReviewIdle
    /\ GithubIdle

\* review_chunk calls _call_api_with_retry: last_error = None, the loop starts
CallApiWithRetry ==
    /\ pc = "review_chunk"
    /\ last_error' = None
    /\ attempt' = 0
    /\ pc' = "loop"
    /\ UNCHANGED <<nonApiVars, max_retries, api_calls, slept, response_text,
                   review_result>>

\* one pass of the try block: the call and the clause that takes its outcome
ApiAttempt ==
    /\ pc = "loop"
    /\ attempt < max_retries
    /\ \E outcome \in ApiOutcomes :
          /\ api_calls' = Append(api_calls, outcome)
          /\ IF outcome.kind = "ok"
             THEN /\ response_text' = ResponseContent(outcome)
                  /\ pc' = "returned"
                  /\ UNCHANGED last_error
             ELSE /\ last_error' = outcome
                  /\ IF IsRetried(outcome)
                     THEN pc' = "sleeping" /\ UNCHANGED response_text
                     ELSE pc' = "returned" /\ response_text' = None
    /\ UNCHANGED <<nonApiVars, max_retries, attempt, slept, review_result>>

\* time.sleep(delay) returns and the loop takes its next value
Sleep ==
    /\ pc = "sleeping"
    /\ slept' = Append(slept, Delay(attempt))
    /\ attempt' = attempt + 1
    /\ pc' = "loop"
    /\ UNCHANGED <<nonApiVars, max_retries, last_error, api_calls,
                   response_text, review_result>>

\* the loop has run out: return None
RetriesExhausted ==
    /\ pc = "loop"
    /\ attempt >= max_retries
    /\ response_text' = None
    /\ pc' = "returned"
    /\ UNCHANGED <<nonApiVars, max_retries, attempt, last_error, api_calls,
                   slept, review_result>>

\* review_chunk returns
ReviewChunkReturn ==
    /\ pc = "returned"
    /\ review_result' = IF response_text = None THEN FailedReview
                        ELSE parse_response(response_text.str)
    /\ pc' = "reviewed"
    /\ UNCHANGED <<nonApiVars, max_retries, attempt, last_error, api_calls,
                   slept, response_text>>

NextApi ==
    CallApiWithRetry \/ ApiAttempt \/ Sleep \/ RetriesExhausted
    \/ ReviewChunkReturn

SpecApi == InitApi /\ [][NextApi]_vars

\* the interpreter runs the loop on: a call of the API returns or raises, a
\* sleep ends, and the statement after it is executed
SpecApiFair == SpecApi /\ WF_vars(NextApi)

-----------------------------------------------------------------------------
(* Properties of the retry loop, checked under SpecApiFair.                 *)

\* the loop has been left
ApiReturned == pc \in {"returned", "reviewed"}

\* the outcomes after which the loop waits and goes on: a rate-limit error or
\* a status error with a code of 500 or more
FollowedByWait(outcome) ==
    \/ outcome.kind = "RateLimitError"
    \/ outcome.kind = "APIStatusError" /\ outcome.status_code >= 500

\* what holds of the calls made so far in every state of a review
RetryLoopInvariant ==
    /\ Len(api_calls) <= max_retries
    /\ \A i \in 1..(Len(api_calls) - 1) : FollowedByWait(api_calls[i])
    /\ \A i \in 1..Len(slept) :
          /\ i <= Len(api_calls)
          /\ FollowedByWait(api_calls[i])
          /\ slept[i] = Delay(i - 1)
    /\ pc = "loop" => Len(slept) = Len(api_calls) /\ attempt = Len(api_calls)
    /\ pc = "sleeping" =>
          /\ Len(slept) = Len(api_calls) - 1
          /\ FollowedByWait(api_calls[Len(api_calls)])
    /\ ApiReturned =>
          LET n == Len(api_calls)
          IN  /\ (n > 0 /\ api_calls[n].kind = "ok") =>
                    /\ response_text = ResponseContent(api_calls[n])
                    /\ Len(slept) = n - 1
              /\ (n > 0 /\ api_calls[n].kind # "ok" /\ ~FollowedByWait(api_calls[n])) =>
                    /\ response_text = None
                    /\ Len(slept) = n - 1
              /\ (n = 0 \/ FollowedByWait(api_calls[n])) =>
                    /\ response_text = None
                    /\ n = max_retries
                    /\ Len(slept) = n
    /\ (pc = "reviewed" /\ response_text = None) =>
          /\ review_result.error # None
          /\ review_result.error.str # ""
          /\ review_result.comments = <<>>

\* C17: a review makes at most max_retries calls of the API and ends: a call
\* that succeeds is the last one and its text is returned; after a
\* rate-limit error or a status error with a code of 500 or more the loop
\* waits (base_delay doubled per attempt) and, while attempts remain, calls
\* again; a status error below 500 or any other exception is the last call
\* and gives None; when every attempt has failed the loop gives None; for
\* None review_chunk returns a result with error set and no comments.
C17_RetriesBoundedAndEnd ==
    /\ []RetryLoopInvariant
    /\ [][Len(api_calls') > Len(api_calls) =>
            (pc = "loop" /\ attempt < max_retries)]_vars
    /\ <>(pc = "reviewed")

\* every attempt of a review with three attempts has hit a retried error and
\* the review has ended with the failure result
C17_Witness ==
    /\ pc = "reviewed"
    /\ max_retries = 3
    /\ Len(api_calls) = 3
    /\ api_calls[1].kind = "RateLimitError"
    /\ api_calls[2].kind = "APIStatusError"
    /\ api_calls[3].kind = "APIStatusError"
    /\ slept = <<1, 2, 4>>
    /\ review_result = FailedReview

-----------------------------------------------------------------------------
(* review_chunks and check_opt_out (review.py), validate_comment and        *)
(* format_comment_body (openai_client.py).                                  *)

\* longest chunk list handed to review_chunks
MaxReviewChunks == 3
\* greatest max_comments_per_file of the configuration
MaxCommentsPerFile == 2

opt_out_markers == <<"<!-- no-review -->", "% no-review", "%no-review">>

\* check_opt_out(chunk)
check_opt_out(c) ==
    LET full_content == c.context_before \o c.content \o c.context_after
    IN  \E m \in 1..Len(opt_out_markers) : Contains(full_content, opt_out_markers[m])

\* severity_order.get(severity, 0)
SeverityLevel(severity) ==
    IF severity = "error" THEN 3
    ELSE IF severity = "warning" THEN 2
    ELSE IF severity = "suggestion" THEN 1
    ELSE 0

\* validate_comment(comment, min_severity)
validate_comment(comment, min) ==
    SeverityLevel(comment.severity) >= SeverityLevel(min)

LowerCase == "abcdefghijklmnopqrstuvwxyz"
UpperCase == "ABCDEFGHIJKLMNOPQRSTUVWXYZ"

\* str.upper() on ASCII text
RECURSIVE Upper(_)
Upper(text) ==
    IF text = "" THEN ""
    ELSE LET c == Char(text, 1)
             u == IF \E i \in 1..Len(LowerCase) : Char(LowerCase, i) = c
                  THEN Char(UpperCase,
                            CHOOSE i \in 1..Len(LowerCase) : Char(LowerCase, i) = c)
                  ELSE c
         IN  u \o Upper(SliceFrom(text, 1))

\* severity_emoji.get(severity, ":memo:")
SeverityEmoji(severity) ==
    IF severity = "error" THEN ":x:"
    ELSE IF severity = "warning" THEN ":warning:"
    ELSE IF severity = "suggestion" THEN ":bulb:"
    ELSE ":memo:"

\* format_comment_body(comment)
format_comment_body(comment) ==
    JoinLines(<<SeverityEmoji(comment.severity) \o " **" \o Upper(comment.severity)
                    \o "** (" \o comment.category \o ")",
                "",
                "**Issue:** " \o comment.issue,
                "">>
              \o (IF comment.suggestion # ""
                  THEN <<"**Suggestion:** " \o comment.suggestion, "">>
                  ELSE <<>>)
              \o (IF comment.explanation # ""
                  THEN <<"**Why this matters:** " \o comment.explanation>>
                  ELSE <<>>))

\* a mutant of the cap test: one comment more than the maximum is let in
AtCapOffByOne(count, max) == count > max

\* len(results[chunk.file_path]) >= max_comments_per_file
AtCap(count, max) == count >= max

\* the loop `for comment in result.comments`, from the 1-based index k, on the
\* list collected for the file so far
RECURSIVE CollectFrom(_, _, _, _, _)
CollectFrom(list, comments, k, min, max) ==
    IF k > Len(comments) THEN list
    ELSE IF ~validate_comment(comments[k], min)
         THEN CollectFrom(list, comments, k + 1, min, max)
    ELSE IF AtCap(Len(list), max) THEN list
    ELSE CollectFrom(Append(list, <<comments[k], format_comment_body(comments[k])>>),
                     comments, k + 1, min, max)

\* `if result.error:`
HasError(result) == result.error # None /\ result.error.str # ""

\* the entry review_chunks adds to summaries for a chunk
SummaryEntry(c, result) ==
    "**" \o c.file_path \o "** (lines " \o IntToStr(c.start_line) \o "-"
    \o IntToStr(c.end_line) \o "): " \o result.summary

\* `if result.summary and result.summary != "No summary provided"`
HasSummary(result) ==
    result.summary # "" /\ result.summary # "No summary provided"

\* results after `if chunk.file_path not in results: results[...] = []`
WithKey(d, key) == IF key \in DOMAIN d THEN d ELSE d @@ (key :> <<>>)

\* a chunk handed to review_chunks
ReviewChunkOf(path, line, before, content, after) ==
    [file_path |-> path, start_line |-> line, end_line |-> line,
     content |-> content, context_before |-> before, context_after |-> after,
     is_new_file |-> FALSE]

\* chunks of two files, with and without an opt-out marker in one of their
\* fields, and one whose fields hold a marker only when joined
ReviewChunkKinds ==
    {ReviewChunkOf("doc/a.tex", 3, "", "x", ""),
     ReviewChunkOf("doc/b.tex", 5, "w", "y", ""),
     ReviewChunkOf("doc/a.tex", 7, "", "% no-review", ""),
     ReviewChunkOf("doc/a.tex", 9, "<!-- no-review -->", "x", ""),
     ReviewChunkOf("doc/b.tex", 11, "", "y", "z %no-review"),
     ReviewChunkOf("doc/a.tex", 13, "% no-", "review", "")}

\* a comment of the model
CommentOf(line, severity) ==
    MakeComment([line |-> line, severity |-> severity, issue |-> "i"])

\* what review_chunk can return or raise
ReviewResults ==
    {FailedReview,
     parse_response("not json"),
     parse_response(ListJson),
     parse_response(CommentJson),
     ReviewResult("", <<CommentOf(1, "suggestion"), CommentOf(2, "error"),
                        CommentOf(3, "info")>>, "", None),
     ReviewResult("ok", <<CommentOf(1, "warning"), CommentOf(2, "warning"),
                          CommentOf(3, "warning")>>, "", None)}

nonReviewVars ==
    <<hunkVars, walk, chunk, changed, rendered, diffVars, filterVars, filtered,
      refiltered, walkVars, max_retries, attempt, last_error, api_calls, slept,
      response_text, githubVars>>

InitReview ==
    /\ pc = "reviewing"
    /\ chunks \in SeqsUpTo(ReviewChunkKinds, MaxReviewChunks)
    /\ min_severity \in {"suggestion", "warning", "error"}
    /\ max_comments_per_file \in 0..MaxCommentsPerFile
    /\ chunk_index = 0
    /\ results = <<>>
    /\ summaries = <<>>
    /\ sent = <<>>
    /\ file_path = ""
    /\ start_line = 0
    /\ hunk_content = ""
    /\ is_new_file = FALSE
    /\ walk = NoWalk
    /\ chunk = None
    /\ changed = <<>>
    /\ rendered = ""
    /\ given = None
    /\ diff_output = ""
    /\ include_patterns = <<>>
    /\ exclude_patterns = <<>>
    /\ filtered = <<>>
    /\ refiltered = <<>>
    /\ lines_read = 0
    /\ ApiIdle
    /\ GithubIdle

\* one pass of `for i, chunk in enumerate(chunks)`
ReviewChunk ==
    /\ pc = "reviewing"
    /\ chunk_index < Len(chunks)
    /\ chunk_index' = chunk_index + 1
    /\ LET c == chunks[chunk_index + 1]
       IN  IF check_opt_out(c)
           THEN UNCHANGED <<pc, results, summaries, sent, review_result>>
           ELSE \E result \in ReviewResults :
                  /\ sent' = Append(sent,
                                    [chunk_index |-> chunk_index + 1,
                                     chunk_content |-> format_chunk_for_review(c),
                                     result |-> result])
                  /\ review_result' = result
                  /\ IF "raised" \in DOMAIN result
                     THEN pc' = "raised" /\ UNCHANGED <<results, summaries>>
                     ELSE IF HasError(result)
                     THEN UNCHANGED <<pc, results, summaries>>
                     ELSE /\ summaries' = IF HasSummary(result)
                                          THEN Append(summaries, SummaryEntry(c, result))
                                          ELSE summaries
                          /\ results' =
                                [WithKey(results, c.file_path)
                                   EXCEPT ![c.file_path] =
                                      CollectFrom(@, result.comments, 1, min_severity,
                                                  max_comments_per_file)]
                          /\ UNCHANGED pc
    /\ UNCHANGED <<nonReviewVars, chunks, min_severity, max_comments_per_file>>

\* the loop has ended: return results, summaries
ReturnResults ==
    /\ pc = "reviewing"
    /\ chunk_index = Len(chunks)
    /\ pc' = "reviewed_all"
    /\ UNCHANGED <<nonReviewVars, chunks, reviewVars, review_result>>

NextReview == ReviewChunk \/ ReturnResults

SpecReview == InitReview /\ [][NextReview]_vars

-----------------------------------------------------------------------------
(* Claims about review_chunks.                                              *)

\* the severities of the configuration, from the lowest to the highest
SeverityScale == <<"suggestion", "warning", "error">>

\* the place of a severity on the scale
PlaceOf(severity) == CHOOSE i \in 1..Len(SeverityScale) : SeverityScale[i] = severity

\* severity is on the scale, at or above min
AtOrAbove(severity, min) ==
    /\ \E i \in 1..Len(SeverityScale) : SeverityScale[i] = severity
    /\ PlaceOf(severity) >= PlaceOf(min)

\* the text of c holds one of the opt-out markers
HasOptOutMarker(c) ==
    LET text == c.context_before \o c.content \o c.context_after
    IN  \/ Contains(text, "<!-- no-review -->")
        \/ Contains(text, "% no-review")
        \/ Contains(text, "%no-review")

\* the review of the call returned a result with an error
ReturnedError(call) ==
    /\ "error" \in DOMAIN call.result
    /\ call.result.error # None

\* the comments collected for path
CollectedFor(path) == IF path \in DOMAIN results THEN results[path] ELSE <<>>

\* the state of review_chunks keeps the cap, the severity floor and the opt-out
ReviewInvariant ==
    /\ \A path \in DOMAIN results : Len(results[path]) <= max_comments_per_file
    /\ \A path \in DOMAIN results : \A k \in 1..Len(results[path]) :
          AtOrAbove(results[path][k][1].severity, min_severity)
    /\ \A s \in 1..Len(sent) : ~HasOptOutMarker(chunks[sent[s].chunk_index])
    /\ pc = "reviewed_all" =>
          \A i \in 1..Len(chunks) :
             HasOptOutMarker(chunks[i]) \/ \E s \in 1..Len(sent) : sent[s].chunk_index = i

\* a step that sends a chunk whose review returns an error collects nothing
\* and goes on with the loop
ErrorStep ==
    (Len(sent') > Len(sent) /\ ReturnedError(sent'[Len(sent')])) =>
        /\ results' = results
        /\ summaries' = summaries
        /\ pc' = "reviewing"
        /\ chunk_index' = chunk_index + 1

\* C18: for every file the comments collected never exceed
\* max_comments_per_file, every collected comment has a severity at or above
\* min_severity, no chunk with an opt-out marker is sent to the API, and a chunk
\* whose review returns an error adds no comment and no summary while the loop
\* goes on to the chunks after it, each of which is sent or opted out by the
\* time review_chunks returns
C18_ReviewChunksBounded == []ReviewInvariant /\ [][ErrorStep]_vars

\* review_chunks has returned after three chunks of one file: the first review
\* returned an error, the second brought one comment and the third filled the
\* file's list up to the cap of two
C18_Witness ==
    /\ pc = "reviewed_all"
    /\ Len(sent) = 3
    /\ ReturnedError(sent[1])
    /\ \A s \in 1..3 : chunks[s].file_path = "doc/a.tex"
    /\ max_comments_per_file = 2
    /\ min_severity = "warning"
    /\ Len(sent[2].result.comments) = 1
    /\ Len(sent[3].result.comments) = 3
    /\ Len(CollectedFor("doc/a.tex")) = 2

-----------------------------------------------------------------------------
(* GitHubClient.post_review, _post_comments_individually,                   *)
(* is_duplicate_comment and get_existing_comments (github_client.py).       *)

\* longest comment list handed to post_review
MaxPostComments == 3
\* most review comments the pull request has before the call
MaxExisting == 2
\* body[:100]
BodyPrefixLength == 100

\* an int where the API has an optional number
Num(n) == [num |-> n]
\* a bool returned by post_review
Bool(b) == [bool |-> b]
\* the set held by the cache once it is filled
Cached(S) == [set |-> S]

\* Python's `a or b` on optional numbers
PyOr(a, b) == IF a = None \/ a.num = 0 THEN b ELSE a

\* text * n
RECURSIVE Repeat(_, _)
Repeat(text, n) == IF n = 0 THEN "" ELSE text \o Repeat(text, n - 1)

\* a text as long as the prefix that is compared
LongPrefix == Repeat("p", BodyPrefixLength)
\* a text that differs from LongPrefix in its last character only
NearPrefix == Repeat("p", BodyPrefixLength - 1) \o "q"

\* PRComment(path, line, body)
PRComment(path, line, body) ==
    [path |-> path, line |-> line, body |-> body, side |-> "RIGHT"]

\* a review comment as self.pr.get_review_comments() yields it
RemoteComment(path, line, original_line, body) ==
    [path |-> path, line |-> line, original_line |-> original_line, body |-> body]

\* the comments post_review is given
PostCommentKinds ==
    {PRComment("doc/a.tex", 3, LongPrefix \o "x"),
     PRComment("doc/a.tex", 4, NearPrefix \o "x"),
     PRComment("doc/b.tex", 3, "")}

\* the review comments the pull request can have: one that shares path, line
\* and the compared prefix with a comment to post, one whose body differs
\* within the prefix, one that is outdated (no line, an original line) with no
\* body
RemoteCommentKinds ==
    {RemoteComment("doc/a.tex", Num(3), None, Str(LongPrefix \o "y")),
     RemoteComment("doc/a.tex", Num(4), Num(4), Str(LongPrefix \o "x")),
     RemoteComment("doc/b.tex", None, Num(3), None)}

\* `comment.body[:100] if comment.body else ""` on a fetched comment
RemoteBodyPrefix(body) ==
    IF body = None \/ body.str = "" THEN "" ELSE SliceTo(body.str, BodyPrefixLength)

\* the tuple get_existing_comments stores for a fetched comment
ExistingKey(c) ==
    <<c.path, PyOr(PyOr(c.line, c.original_line), Num(0)).num,
      RemoteBodyPrefix(c.body)>>

\* get_existing_comments when the cache is empty and the listing yields the
\* first n comments (all of them, or those before it raises GithubException)
get_existing_comments(remote, n) == {ExistingKey(remote[i]) : i \in 1..n}

\* a mutant of the duplicate test: the body is not compared
IsDuplicateIgnoringBody(comment, existing) ==
    \E k \in existing : k[1] = comment.path /\ k[2] = comment.line

\* is_duplicate_comment(comment), on the set get_existing_comments returned
is_duplicate_comment(comment, existing) ==
    <<comment.path, comment.line,
      IF comment.body = "" THEN "" ELSE SliceTo(comment.body, BodyPrefixLength)>>
        \in existing

\* [c for c in comments if not self.is_duplicate_comment(c)]
RECURSIVE WithoutDuplicates(_, _)
WithoutDuplicates(list, existing) ==
    IF list = <<>> THEN <<>>
    ELSE (IF is_duplicate_comment(Head(list), existing) THEN <<>> ELSE <<Head(list)>>)
         \o WithoutDuplicates(Tail(list), existing)

\* the dicts post_review builds for create_review
RECURSIVE ReviewCommentsOf(_)
ReviewCommentsOf(list) ==
    IF list = <<>> THEN <<>>
    ELSE <<[path |-> Head(list).path, line |-> Head(list).line,
            body |-> Head(list).body, side |-> Head(list).side]>>
         \o ReviewCommentsOf(Tail(list))

\* the body of the batched review
ReviewBody(summary_text, count) ==
    IF summary_text # ""
    THEN JoinLines(<<"## LaTeX Review Summary\n", summary_text, "\n\n---\n",
                     "*Reviewed " \o IntToStr(count)
                       \o " location(s) in changed LaTeX files.*">>)
    ELSE "Review complete."

\* the body of the issue comment that carries the summary in the fallback
SummaryBody(summary_text, posted, count) ==
    "## LaTeX Review Summary\n\n" \o summary_text \o "\n\n---\n*Posted "
    \o IntToStr(posted) \o "/" \o IntToStr(count) \o " inline comments.*"

nonGithubVars == <<parserVars, apiVars, reviewVars>>

InitGithub ==
    /\ pc = "post_review"
    /\ pr_review_comments \in SeqsUpTo(RemoteCommentKinds, MaxExisting)
    /\ existing_comments = None
    /\ post_comments \in SeqsUpTo(PostCommentKinds, MaxPostComments)
    /\ post_summary \in {"", "ok"}
    /\ skip_duplicates \in BOOLEAN
    /\ kept_comments = <<>>
    /\ review_comments = <<>>
    /\ pr_calls = <<>>
    /\ post_index = 0
    /\ success_count = 0
    /\ post_result = None
    /\ ParserIdle
    /\ ApiIdle
    /\ ReviewIdle

\* post_review up to its first return: the duplicate filter (whose first
\* is_duplicate_comment fills the cache from the pull request) and the return
\* when nothing is left to post
FilterDuplicates ==
    /\ pc = "post_review"
    /\ IF skip_duplicates /\ post_comments # <<>>
       THEN \E n \in 0..Len(pr_review_comments) :
               LET existing == get_existing_comments(pr_review_comments, n)
               IN  /\ existing_comments' = Cached(existing)
                   /\ pr_calls' = Append(pr_calls,
                                         [call |-> "get_review_comments",
                                          ok |-> n = Len(pr_review_comments),
                                          yielded |-> n])
                   /\ kept_comments' = WithoutDuplicates(post_comments, existing)
       ELSE /\ kept_comments' = post_comments
            /\ UNCHANGED <<existing_comments, pr_calls>>
    /\ IF kept_comments' = <<>> /\ post_summary = ""
       THEN pc' = "posted" /\ post_result' = Bool(TRUE)
       ELSE pc' = "create_review" /\ UNCHANGED post_result
    /\ UNCHANGED <<nonGithubVars, pr_review_comments, post_comments, post_summary,
                   skip_duplicates, review_comments, post_index, success_count>>

\* the try block of post_review: the batched review, and what follows when
\* create_review raises GithubException
CreateReview ==
    /\ pc = "create_review"
    /\ review_comments' = ReviewCommentsOf(kept_comments)
    /\ \E ok \in BOOLEAN :
          /\ pr_calls' = Append(pr_calls,
                                [call |-> "create_review", ok |-> ok,
                                 body |-> ReviewBody(post_summary, Len(kept_comments)),
                                 comments |-> review_comments'])
          /\ IF ok THEN pc' = "posted" /\ post_result' = Bool(TRUE)
             ELSE IF review_comments' # <<>>
             THEN pc' = "individually" /\ UNCHANGED post_result
             ELSE pc' = "posted" /\ post_result' = Bool(FALSE)
    /\ UNCHANGED <<nonGithubVars, pr_review_comments, existing_comments,
                   post_comments, post_summary, skip_duplicates, kept_comments,
                   post_index, success_count>>

\* one pass of `for comment in comments` of _post_comments_individually
PostCommentIndividually ==
    /\ pc = "individually"
    /\ post_index < Len(kept_comments)
    /\ post_index' = post_index + 1
    /\ \E ok \in BOOLEAN :
          /\ pr_calls' = Append(pr_calls,
                                [call |-> "create_review_comment", ok |-> ok,
                                 comment |-> kept_comments[post_index + 1]])
          /\ success_count' = IF ok THEN success_count + 1 ELSE success_count
    /\ UNCHANGED <<pc, nonGithubVars, pr_review_comments, existing_comments,
                   post_comments, post_summary, skip_duplicates, kept_comments,
                   review_comments, post_result>>

\* the end of _post_comments_individually: the summary as an issue comment,
\* and the value post_review returns
PostSummaryAndReturn ==
    /\ pc = "individually"
    /\ post_index = Len(kept_comments)
    /\ IF post_summary # ""
       THEN \E ok \in BOOLEAN :
               pr_calls' = Append(pr_calls,
                                  [call |-> "create_issue_comment", ok |-> ok,
                                   body |-> SummaryBody(post_summary, success_count,
                                                        Len(kept_comments))])
       ELSE UNCHANGED pr_calls
    /\ post_result' = Bool(success_count > 0)
    /\ pc' = "posted"
    /\ UNCHANGED <<nonGithubVars, pr_review_comments, existing_comments,
                   post_comments, post_summary, skip_duplicates, kept_comments,
                   review_comments, post_index, success_count>>

NextGithub ==
    FilterDuplicates \/ CreateReview \/ PostCommentIndividually
    \/ PostSummaryAndReturn

SpecGithub == InitGithub /\ [][NextGithub]_vars

-----------------------------------------------------------------------------
(* Claims about post_review.                                                *)

\* the first hundred characters of a text
FirstHundred(text) == SubSeq(text, 1, IF Len(text) < 100 THEN Len(text) ELSE 100)

\* the body of an existing comment, none read as empty
ExistingBody(e) == IF e.body = None THEN "" ELSE e.body.str

\* c has the path, the line and the first hundred characters of body of the
\* existing comment e
DuplicateAsStated(c, e) ==
    /\ c.path = e.path
    /\ e.line = [num |-> c.line]
    /\ FirstHundred(c.body) = FirstHundred(ExistingBody(e))

\* the line an existing comment is compared by: its line or, when it has none,
\* its original line, or 0
ComparedLine(e) ==
    IF e.line # None /\ e.line.num # 0 THEN e.line.num
    ELSE IF e.original_line # None THEN e.original_line.num
    ELSE 0

\* c has the path, the compared line and the first hundred characters of body
\* of the existing comment e
DuplicateAsCompared(c, e) ==
    /\ c.path = e.path
    /\ c.line = ComparedLine(e)
    /\ FirstHundred(c.body) = FirstHundred(ExistingBody(e))

\* the positions in pr_calls of the calls of one method
CallsOf(name) == {i \in DOMAIN pr_calls : pr_calls[i].call = name}

\* how many existing comments the listing yielded
Yielded ==
    IF CallsOf("get_review_comments") = {} THEN 0
    ELSE pr_calls[CHOOSE i \in CallsOf("get_review_comments") : TRUE].yielded

\* c duplicates none of the existing comments that were fetched
NotFetchedDuplicate(c) ==
    \A i \in 1..Yielded : ~DuplicateAsCompared(c, pr_review_comments[i])

\* the comments post_review has to post
ExpectedToPost ==
    IF skip_duplicates THEN SelectSeq(post_comments, NotFetchedDuplicate)
    ELSE post_comments

\* the comments handed to a call of pr_calls
SubmittedIn(i) ==
    IF pr_calls[i].call = "create_review"
    THEN {pr_calls[i].comments[k] : k \in 1..Len(pr_calls[i].comments)}
    ELSE IF pr_calls[i].call = "create_review_comment"
    THEN {pr_calls[i].comment}
    ELSE {}

\* every comment handed to the API
Submitted == UNION {SubmittedIn(i) : i \in DOMAIN pr_calls}

\* the batched review comes first and once, and comments are posted one by one
\* only after a batch with at least one comment failed, in the order of the
\* batch
BatchFirst ==
    /\ Cardinality(CallsOf("create_review")) <= 1
    /\ \A i \in CallsOf("create_review_comment") :
          \E b \in CallsOf("create_review") :
             /\ b < i
             /\ ~pr_calls[b].ok
             /\ i - b <= Len(pr_calls[b].comments)
             /\ pr_calls[i].comment = pr_calls[b].comments[i - b]
    /\ \A i \in CallsOf("create_issue_comment") :
          CallsOf("create_review_comment") # {}

\* after a failed batch with comments every one of them has been tried
AllTriedAfterFailedBatch ==
    pc = "posted" =>
       \A b \in CallsOf("create_review") :
          ~pr_calls[b].ok =>
             Cardinality(CallsOf("create_review_comment")) = Len(pr_calls[b].comments)

BatchSucceeded == \E b \in CallsOf("create_review") : pr_calls[b].ok
BatchFailedEmpty ==
    \E b \in CallsOf("create_review") : ~pr_calls[b].ok /\ pr_calls[b].comments = <<>>
SomePosted == \E i \in CallsOf("create_review_comment") : pr_calls[i].ok
AllIndividualFailed ==
    /\ CallsOf("create_review_comment") # {}
    /\ \A i \in CallsOf("create_review_comment") : ~pr_calls[i].ok

\* the value returned, as stated
ResultAsStated ==
    pc = "posted" =>
       /\ (BatchSucceeded \/ SomePosted) => post_result = [bool |-> TRUE]
       /\ (BatchFailedEmpty \/ AllIndividualFailed) => post_result = [bool |-> FALSE]

\* C19 as stated: with skip_duplicates no comment handed to the API duplicates
\* an existing comment of the pull request (same path, line and first hundred
\* characters of body); the batch comes first, the one-by-one posting only
\* after a failed batch with comments and through all of them; True for a
\* successful batch or a posted comment, False for a failed batch without
\* comments or when every single post failed
C19_NoDuplicateOfExistingPosted ==
    /\ skip_duplicates =>
          \A c \in Submitted : \A i \in 1..Len(pr_review_comments) :
             ~DuplicateAsStated(c, pr_review_comments[i])
    /\ BatchFirst
    /\ AllTriedAfterFailedBatch
    /\ ResultAsStated

\* the statement holds in every run in which the listing of the existing
\* comments did not fail
C19_HoldsWhenListingSucceeds ==
    (\A i \in CallsOf("get_review_comments") : pr_calls[i].ok) =>
        C19_NoDuplicateOfExistingPosted

\* C19, amended: the existing comments are listed at most once, before any
\* posting, and only when skip_duplicates is set and there is a comment; the
\* batch holds, in order, the given comments that duplicate none of the
\* existing comments the listing yielded before it ended or failed (all given
\* comments without skip_duplicates); when no comment is left and the summary
\* is empty nothing is posted and True is returned; otherwise the batch comes
\* first, the one-by-one posting only after a failed batch with comments and
\* through all of them, and the value returned is True exactly for a
\* successful batch or a posted comment
C19_PostsNonDuplicatesOfFetched ==
    /\ \A i \in CallsOf("get_review_comments") :
          i = 1 /\ skip_duplicates /\ post_comments # <<>>
    /\ \A b \in CallsOf("create_review") : pr_calls[b].comments = ExpectedToPost
    /\ BatchFirst
    /\ AllTriedAfterFailedBatch
    /\ ResultAsStated
    /\ pc = "posted" =>
          /\ CallsOf("create_review") = {} <=>
                (ExpectedToPost = <<>> /\ post_summary = "")
          /\ CallsOf("create_review") = {} =>
                (post_result = [bool |-> TRUE] /\ Submitted = {})
          /\ post_result = [bool |-> TRUE] <=>
                (CallsOf("create_review") = {} \/ BatchSucceeded \/ SomePosted)

\* post_review has returned True: the listing succeeded and one of the three
\* given comments was left out as a duplicate, the batch of the other two
\* failed, the first of them failed again on its own and the second was posted
C19_Witness ==
    /\ pc = "posted"
    /\ skip_duplicates
    /\ post_summary # ""
    /\ Len(post_comments) = 3
    /\ \E i \in CallsOf("get_review_comments") : pr_calls[i].ok
    /\ \E i \in 1..Len(pr_review_comments) :
          DuplicateAsStated(post_comments[1], pr_review_comments[i])
    /\ \E b \in CallsOf("create_review") :
          /\ ~pr_calls[b].ok
          /\ Len(pr_calls[b].comments) = 2
          /\ ~pr_calls[b + 1].ok
          /\ pr_calls[b + 2].ok
    /\ post_result = [bool |-> TRUE]

====
